---------------------------- MODULE Spec2Model ----------------------------
(***************************************************************************)
(* Verification model of the proof-of-useful-work worker (tops-worker).    *)
(*                                                                         *)
(* The module holds one state machine per part of the program:             *)
(*   gemm  - one output element of gemm_int8_relu_q, computed by the       *)
(*           scalar executor (cpu.rs) and by the OpenCL kernel             *)
(*           (cl_kernels.rs) on the same operands;                         *)
(*   flip  - sign_flip_i8 (attempt.rs), called on every i8 value;          *)
(*   mix   - apply_mix_a_columns / apply_mix_w1_rows (attempt.rs);         *)
(*   att   - run_attempt (attempt.rs), called twice by one process;        *)
(*   seeds - derive_seed (prng.rs), called twice;                          *)
(*   rcpt  - Secp::sign_receipt (signing.rs) on two receipts;              *)
(*   loop  - the worker loop of main (main.rs);                            *)
(*   rl    - RateLimiter (error_handling.rs) and its clock;                *)
(*   cb    - CircuitBreaker (error_handling.rs) and its clock;             *)
(*   retry - ErrorHandler::execute_with_retry (error_handling.rs);         *)
(*   tune  - autotune_sizes (main.rs);                                     *)
(*   boot  - main from its entry to the first loop iteration (main.rs,     *)
(*           config.rs);                                                   *)
(*   mtr   - concurrent calls of MetricsCollector (metrics.rs);            *)
(*   srv   - HealthServer::handle_request (server.rs, health.rs).          *)
(* Each part has its own specification (SpecGemm, SpecFlip, SpecMix,       *)
(* SpecAttempt, SpecSeeds, SpecReceipt, SpecLoop, SpecRate, SpecBreaker,   *)
(* SpecRetry, SpecTune, SpecBoot, SpecMetrics, SpecServer);                *)
(* the variables of the other parts stay at their idle value.  SpecWait is *)
(* the polling loop of RateLimiter::wait_for_token, with the fairness of a *)
(* thread that keeps being scheduled.                                      *)
(*                                                                         *)
(* Machine integers wider than 31 bits (the i64 accumulator of cpu.rs, the *)
(* long of the kernel) are held as arbitrary-precision integers (Big...),  *)
(* since the partial sums and the product acc * num leave the range of the *)
(* model checker's integers.                                               *)
(***************************************************************************)
EXTENDS Integers, Sequences, FiniteSets, TLC

VARIABLES gemm, flip, mix, att, seeds, rcpt, loop, rl, cb,
          retry, tune, boot, mtr, srv

vars == <<gemm, flip, mix, att, seeds, rcpt, loop, rl, cb,
          retry, tune, boot, mtr, srv>>

\* what the actions of one part leave unchanged
NotGemm ==
    <<flip, mix, att, seeds, rcpt, loop, rl, cb, retry, tune, boot, mtr, srv>>
NotFlip ==
    <<gemm, mix, att, seeds, rcpt, loop, rl, cb, retry, tune, boot, mtr, srv>>
NotMix ==
    <<gemm, flip, att, seeds, rcpt, loop, rl, cb, retry, tune, boot, mtr, srv>>
NotAtt ==
    <<gemm, flip, mix, seeds, rcpt, loop, rl, cb, retry, tune, boot, mtr, srv>>
NotSeeds ==
    <<gemm, flip, mix, att, rcpt, loop, rl, cb, retry, tune, boot, mtr, srv>>
NotRcpt ==
    <<gemm, flip, mix, att, seeds, loop, rl, cb, retry, tune, boot, mtr, srv>>
NotLoop ==
    <<gemm, flip, mix, att, seeds, rcpt, rl, cb, retry, tune, boot, mtr, srv>>
NotRl ==
    <<gemm, flip, mix, att, seeds, rcpt, loop, cb, retry, tune, boot, mtr, srv>>
NotCb ==
    <<gemm, flip, mix, att, seeds, rcpt, loop, rl, retry, tune, boot, mtr, srv>>
NotRetry ==
    <<gemm, flip, mix, att, seeds, rcpt, loop, rl, cb, tune, boot, mtr, srv>>
NotTune ==
    <<gemm, flip, mix, att, seeds, rcpt, loop, rl, cb, retry, boot, mtr, srv>>
NotBoot ==
    <<gemm, flip, mix, att, seeds, rcpt, loop, rl, cb, retry, tune, mtr, srv>>
NotMtr ==
    <<gemm, flip, mix, att, seeds, rcpt, loop, rl, cb, retry, tune, boot, srv>>
NotSrv ==
    <<gemm, flip, mix, att, seeds, rcpt, loop, rl, cb, retry, tune, boot, mtr>>

\* the value of the variable of a part that a specification does not run
Idle == [pc |-> "idle"]

\* every part but those of `running` is idle
RestIdle(running) ==
    /\ "gemm" \notin running => gemm = Idle
    /\ "flip" \notin running => flip = Idle
    /\ "mix" \notin running => mix = Idle
    /\ "att" \notin running => att = Idle
    /\ "seeds" \notin running => seeds = Idle
    /\ "rcpt" \notin running => rcpt = Idle
    /\ "loop" \notin running => loop = Idle
    /\ "rl" \notin running => rl = Idle
    /\ "cb" \notin running => cb = Idle
    /\ "retry" \notin running => retry = Idle
    /\ "tune" \notin running => tune = Idle
    /\ "boot" \notin running => boot = Idle
    /\ "mtr" \notin running => mtr = Idle
    /\ "srv" \notin running => srv = Idle

-----------------------------------------------------------------------------
(* Arbitrary-precision integers: sign and magnitude, the magnitude a       *)
(* little-endian sequence of limbs in base 2^15 without a leading zero     *)
(* limb (so every integer has exactly one representation).                 *)

LimbBase == 2^15

RECURSIVE MagNorm(_)
MagNorm(x) ==
    IF x = <<>> THEN <<>>
    ELSE IF x[Len(x)] = 0 THEN MagNorm(SubSeq(x, 1, Len(x) - 1))
    ELSE x

RECURSIVE MagOfNat(_)
MagOfNat(n) ==
    IF n = 0 THEN <<>> ELSE <<n % LimbBase>> \o MagOfNat(n \div LimbBase)

RECURSIVE MagAddC(_, _, _)
MagAddC(x, y, c) ==
    IF x = <<>> /\ y = <<>> THEN (IF c = 0 THEN <<>> ELSE <<c>>)
    ELSE LET xd == IF x = <<>> THEN 0 ELSE Head(x)
             yd == IF y = <<>> THEN 0 ELSE Head(y)
             xt == IF x = <<>> THEN <<>> ELSE Tail(x)
             yt == IF y = <<>> THEN <<>> ELSE Tail(y)
             s  == xd + yd + c
         IN  <<s % LimbBase>> \o MagAddC(xt, yt, s \div LimbBase)

MagAdd(x, y) == MagAddC(x, y, 0)

\* x - y for x >= y (limbs before normalisation)
RECURSIVE MagSubB(_, _, _)
MagSubB(x, y, b) ==
    IF x = <<>> THEN <<>>
    ELSE LET yd == IF y = <<>> THEN 0 ELSE Head(y)
             yt == IF y = <<>> THEN <<>> ELSE Tail(y)
             d  == Head(x) - yd - b
         IN  IF d < 0 THEN <<d + LimbBase>> \o MagSubB(Tail(x), yt, 1)
             ELSE <<d>> \o MagSubB(Tail(x), yt, 0)

MagSub(x, y) == MagNorm(MagSubB(x, y, 0))

\* -1, 0, 1 as x < y, x = y, x > y
RECURSIVE MagCmp(_, _)
MagCmp(x, y) ==
    IF Len(x) # Len(y) THEN (IF Len(x) < Len(y) THEN -1 ELSE 1)
    ELSE IF x = <<>> THEN 0
    ELSE IF x[Len(x)] # y[Len(y)] THEN (IF x[Len(x)] < y[Len(y)] THEN -1 ELSE 1)
    ELSE MagCmp(SubSeq(x, 1, Len(x) - 1), SubSeq(y, 1, Len(y) - 1))

RECURSIVE MagMulLimb(_, _, _)
MagMulLimb(x, d, c) ==
    IF x = <<>> THEN (IF c = 0 THEN <<>> ELSE <<c>>)
    ELSE LET p == Head(x) * d + c
         IN  <<p % LimbBase>> \o MagMulLimb(Tail(x), d, p \div LimbBase)

RECURSIVE MagMul(_, _)
MagMul(x, y) ==
    IF x = <<>> \/ y = <<>> THEN <<>>
    ELSE MagNorm(MagAdd(MagMulLimb(x, Head(y), 0), <<0>> \o MagMul(x, Tail(y))))

\* quotient and remainder by one limb d > 0, from the top limb down
RECURSIVE MagDivLimb(_, _)
MagDivLimb(x, d) ==
    IF x = <<>> THEN [q |-> <<>>, r |-> 0]
    ELSE LET h   == MagDivLimb(Tail(x), d)
             cur == h.r * LimbBase + Head(x)
         IN  [q |-> MagNorm(<<cur \div d>> \o h.q), r |-> cur % d]

\* quotient and remainder by a magnitude y > 0, by doubling
RECURSIVE MagDivLong(_, _)
MagDivLong(x, y) ==
    IF MagCmp(x, y) < 0 THEN [q |-> <<>>, r |-> x]
    ELSE LET h  == MagDivLong(x, MagAdd(y, y))
             q2 == MagAdd(h.q, h.q)
         IN  IF MagCmp(h.r, y) >= 0
             THEN [q |-> MagAdd(q2, <<1>>), r |-> MagSub(h.r, y)]
             ELSE [q |-> q2, r |-> h.r]

MagDivMod(x, y) ==
    IF Len(y) = 1
    THEN LET h == MagDivLimb(x, y[1]) IN [q |-> h.q, r |-> MagOfNat(h.r)]
    ELSE MagDivLong(x, y)

RECURSIVE MagPow2(_)
MagPow2(n) == IF n < 15 THEN <<2^n>> ELSE <<0>> \o MagPow2(n - 15)

RECURSIVE MagToNat(_)
MagToNat(x) == IF x = <<>> THEN 0 ELSE Head(x) + LimbBase * MagToNat(Tail(x))

Big(neg, mag) == [neg |-> neg /\ mag # <<>>, mag |-> mag]

BigZero == Big(FALSE, <<>>)

\* i is an integer of the model checker: -2^31 <= i < 2^31
BigOfInt(i) ==
    IF i < 0 THEN Big(TRUE, MagAdd(MagOfNat(-(i + 1)), <<1>>))
    ELSE Big(FALSE, MagOfNat(i))

BigNeg(x) == Big(~x.neg, x.mag)

BigAdd(x, y) ==
    IF x.neg = y.neg THEN Big(x.neg, MagAdd(x.mag, y.mag))
    ELSE IF MagCmp(x.mag, y.mag) >= 0 THEN Big(x.neg, MagSub(x.mag, y.mag))
    ELSE Big(y.neg, MagSub(y.mag, x.mag))

BigSub(x, y) == BigAdd(x, BigNeg(y))

BigMul(x, y) == Big(x.neg # y.neg, MagMul(x.mag, y.mag))

\* -1, 0, 1 as x < y, x = y, x > y
BigCmp(x, y) ==
    IF x.neg # y.neg THEN (IF x.neg THEN -1 ELSE 1)
    ELSE IF x.neg THEN MagCmp(y.mag, x.mag)
    ELSE MagCmp(x.mag, y.mag)

BigLt(x, y) == BigCmp(x, y) < 0
BigLe(x, y) == BigCmp(x, y) <= 0

\* signed division rounding toward zero (y # 0)
BigDivTrunc(x, y) == Big(x.neg # y.neg, MagDivMod(x.mag, y.mag).q)

\* signed division rounding toward negative infinity (y # 0)
BigDivFloor(x, y) ==
    LET h == MagDivMod(x.mag, y.mag)
    IN  IF x.neg # y.neg /\ h.r # <<>>
        THEN Big(TRUE, MagAdd(h.q, <<1>>))
        ELSE Big(x.neg # y.neg, h.q)

BigPow2(n) == Big(FALSE, MagPow2(n))

\* the value of x, for -2^31 < x < 2^31
BigToInt(x) == IF x.neg THEN -MagToNat(x.mag) ELSE MagToNat(x.mag)

\* x reduced modulo 2^bits into [-2^(bits-1), 2^(bits-1)): two's complement
BigWrap(x, bits) ==
    LET m  == MagPow2(bits)
        r0 == MagDivMod(x.mag, m).r
        r  == IF x.neg /\ r0 # <<>> THEN MagSub(m, r0) ELSE r0
    IN  IF MagCmp(r, MagPow2(bits - 1)) >= 0
        THEN Big(TRUE, MagSub(m, r))
        ELSE Big(FALSE, r)

BigFits(x, bits) ==
    /\ BigLe(BigNeg(BigPow2(bits - 1)), x)
    /\ BigLt(x, BigPow2(bits - 1))

-----------------------------------------------------------------------------
(* Machine integer types of the source.                                    *)

I8_MIN == -128
I8_MAX == 127
I8 == I8_MIN .. I8_MAX

I32_MAX == 2147483647
I32_MIN == -I32_MAX - 1

\* `x as i8` / `(char)x` for an integer x of the model checker
WrapI8(x) == ((x - I8_MIN) % 256) + I8_MIN

-----------------------------------------------------------------------------
(* gemm_int8_relu_q, one output element Y[row, col].                       *)
(*                                                                         *)
(* The operand matrices are row-major arrays; the harness names a matrix   *)
(* by a fill pattern and reads its elements through MatElem, so that a     *)
(* matrix with 2^18 elements costs nothing to hold in a state.             *)

I8Samples == <<-128, -1, 0, 1, 127, 64, -127>>

\* element i of the matrix filled with pattern p: the samples taken
\* cyclically from p.off with step p.stride (stride 0: a constant matrix)
MatElem(p, i) == I8Samples[((p.off + p.stride * i) % Len(I8Samples)) + 1]

MatPatterns == [off : 0 .. Len(I8Samples) - 1, stride : {0, 1}]
UniformMin == [off |-> 0, stride |-> 0]
UniformMax == [off |-> 4, stride |-> 0]
Uniforms == {UniformMin, UniformMax}
RightPatterns == Uniforms \cup {[off |-> 0, stride |-> 1], [off |-> 3, stride |-> 1]}

\* cpu.rs:16   acc += (a[row*k + t] as i32 as i64) * (b[t*n + col] as i32 as i64)
\* (the widening casts keep the value; the i64 product of two i8 is exact)
CpuAccStep(acc, A, B, n, k, row, col, t) ==
    BigAdd(acc, BigOfInt(MatElem(A, row * k + t) * MatElem(B, t * n + col)))

\* A plausible slip: the upper clamp `if q > 127 { q = 127 }` is left out
\* and the cast alone narrows q (its low limb holds the low 8 bits).
CpuClampNoUpper(q) ==
    IF BigLt(q, BigZero) THEN 0
    ELSE IF q.mag = <<>> THEN 0
    ELSE WrapI8(q.mag[1])

\* A plausible slip: the lower clamp `if q < 0 { q = 0 }` is left out and
\* the cast alone narrows a negative q to its low 8 bits.
CpuClampNoLower(q) ==
    IF BigLt(BigOfInt(I8_MAX), q) THEN I8_MAX
    ELSE IF q.mag = <<>> THEN 0
    ELSE WrapI8(IF q.neg THEN -(q.mag[1] % 256) ELSE q.mag[1])

\* cpu.rs:19-21   if q < 0 { q = 0 }  if q > 127 { q = 127 }  q as i8
CpuClamp(q) ==
    IF BigLt(q, BigZero) THEN 0
    ELSE IF BigLt(BigOfInt(I8_MAX), q) THEN I8_MAX
    ELSE WrapI8(BigToInt(q))

\* cpu.rs:18   (acc * num as i64) / den as i64, in i64 arithmetic.
\* The product leaves i64 for large acc and num: a build with overflow
\* checks (profile "debug") panics, one without ("release") wraps. The
\* division panics in every build for i64::MIN / -1 (and for den = 0, which
\* the callers do not pass).  Result: [panic, q].
CpuRequant(acc, num, den, profile) ==
    LET exact == BigMul(acc, BigOfInt(num))
        prod  == IF BigFits(exact, 64) THEN exact ELSE BigWrap(exact, 64)
    IN  IF ~BigFits(exact, 64) /\ profile = "debug"
        THEN [panic |-> TRUE, q |-> BigZero]
        ELSE IF den = -1 /\ prod = BigNeg(BigPow2(63))
        THEN [panic |-> TRUE, q |-> BigZero]
        ELSE [panic |-> FALSE, q |-> BigDivTrunc(prod, BigOfInt(den))]

\* A plausible slip: the accumulator declared `short acc`.
KernelAccBits16 == 2^4

\* cl_kernels.rs:14   int acc
KernelAccBits == 32

\* cl_kernels.rs:16-18   acc += (int)A[row*lda + t] * (int)B[t*ldb + col]
\* The exact sum; it is the new value of acc when it fits the int.
KernelAccSum(acc, A, B, lda, ldb, row, col, t) ==
    BigAdd(acc, BigOfInt(MatElem(A, row * lda + t) * MatElem(B, t * ldb + col)))

\* Signed overflow of the int accumulator is undefined in OpenCL C.  The
\* outcomes modelled: the sum wraps in two's complement ("wrap"), or the
\* compiler keeps the accumulator in a wider register and the sum stays
\* exact ("wide").  A device has one of the two for the whole run.
KernelOverflowModes == {"wrap", "wide"}

KernelAccAfter(sum, mode) ==
    IF BigFits(sum, KernelAccBits) THEN sum
    ELSE IF mode = "wrap" THEN BigWrap(sum, KernelAccBits)
    ELSE sum

\* cl_kernels.rs:21   long tmp = ((long)acc * (long)scale_num) / (long)scale_den
KernelRequant(acc, num, den) ==
    LET exact == BigMul(acc, BigOfInt(num))
        prod  == IF BigFits(exact, 64) THEN exact ELSE BigWrap(exact, 64)
    IN  IF den = -1 /\ prod = BigNeg(BigPow2(63)) THEN prod
        ELSE BigDivTrunc(prod, BigOfInt(den))

\* cl_kernels.rs:22-24   if (tmp < 0) tmp = 0; if (tmp > 127) tmp = 127; (char)tmp
KernelClamp(tmp) ==
    IF BigLt(tmp, BigZero) THEN 0
    ELSE IF BigLt(BigOfInt(I8_MAX), tmp) THEN I8_MAX
    ELSE WrapI8(BigToInt(tmp))

(* Inputs of the harness.  Small shapes take pairs of fill patterns, the    *)
(* last row of Y and each of its columns, and run both loops from t = 0.   *)
(* So do the constant matrices of -128 and of 127 (the operands with the   *)
(* largest products) for k = MidK.  The long dot products, k around 2^17   *)
(* and 2^18 where the accumulators reach 2^31 and 2^32, are entered        *)
(* LongTail iterations before their end, in the state the loops have there *)
(* on constant matrices: after t iterations acc = t * a * b, and the       *)
(* kernel's int has not overflowed, since t * |a * b| < 2^31 for t < 2^17  *)
(* (GemmUniformPrefix states the closed form for the runs from t = 0).     *)
(* The run for k = 2^18 + 1 is of the scalar executor alone.               *)
MaxDim == 2
MidK == 300
LongTail == 40

LongKs == {2^17 - 1, 2^17}
CpuOnlyKs == {2^18 + 1}

ScaleNums == {1, -1, I32_MAX, I32_MIN}
ScaleDens == {256, 1, -3}

GemmIdle == [pc |-> "idle"]

GemmStart(A, B, m, n, k, row, col, t, execs) ==
    LET sofar == BigMul(BigOfInt(t), BigOfInt(MatElem(A, 0) * MatElem(B, 0)))
    IN  [pc |-> "cpu_acc", execs |-> execs,
         A |-> A, B |-> B, m |-> m, n |-> n, k |-> k, row |-> row, col |-> col,
         t |-> t, acc |-> sofar,
         kt |-> t, kacc |-> sofar, kub |-> FALSE, kmode |-> "none",
         num |-> 0, den |-> 0, panic |-> FALSE, q |-> BigZero, y |-> 0,
         ktmp |-> BigZero, ky |-> 0]

GemmInit ==
    \/ \E A \in MatPatterns, B \in RightPatterns, m \in 1 .. MaxDim,
          n \in 1 .. MaxDim, k \in 1 .. MaxDim :
          \E col \in 0 .. n - 1 :
             gemm = GemmStart(A, B, m, n, k, m - 1, col, 0, "both")
    \/ \E A \in Uniforms, B \in Uniforms :
          gemm = GemmStart(A, B, 1, 1, MidK, 0, 0, 0, "both")
    \/ \E A \in Uniforms, B \in Uniforms, k \in LongKs :
          gemm = GemmStart(A, B, 1, 1, k, 0, 0, k - LongTail, "both")
    \/ \E A \in Uniforms, B \in Uniforms, k \in CpuOnlyKs :
          gemm = GemmStart(A, B, 1, 1, k, 0, 0, k - LongTail, "cpu")

\* cpu.rs:15-17   `for t in 0..k { acc += ... }`: the iterations t .. t+cnt-1,
\* one after the other.  `acc +=` on an i64 wraps or panics when the sum
\* leaves i64, which no k below 2^49 can cause; the sum is kept exact.
RECURSIVE CpuAccRun(_, _, _, _, _, _, _, _, _)
CpuAccIter(sum, A, B, n, k, row, col, t, cnt) ==
    IF BigFits(sum, 64)
    THEN CpuAccRun(sum, A, B, n, k, row, col, t + 1, cnt - 1)
    ELSE CpuAccRun(BigWrap(sum, 64), A, B, n, k, row, col, t + 1, cnt - 1)

CpuAccRun(acc, A, B, n, k, row, col, t, cnt) ==
    IF cnt = 0 THEN acc
    ELSE CpuAccIter(CpuAccStep(acc, A, B, n, k, row, col, t),
                    A, B, n, k, row, col, t, cnt)

\* cl_kernels.rs:15-19   `for (t = 0; t < K; ++t) { ... acc += a * b; }`: the
\* iterations t .. t+cnt-1, one after the other; ub records that some
\* iteration overflowed the int
RECURSIVE KernelAccRun(_, _, _, _, _, _, _, _, _, _, _)
KernelAccIter(sum, ub, A, B, lda, ldb, row, col, t, cnt, mode) ==
    IF BigFits(sum, KernelAccBits)
    THEN KernelAccRun(sum, ub, A, B, lda, ldb, row, col, t + 1, cnt - 1, mode)
    ELSE KernelAccRun(KernelAccAfter(sum, mode), TRUE,
                      A, B, lda, ldb, row, col, t + 1, cnt - 1, mode)

KernelAccRun(acc, ub, A, B, lda, ldb, row, col, t, cnt, mode) ==
    IF cnt = 0 THEN [acc |-> acc, ub |-> ub]
    ELSE KernelAccIter(KernelAccSum(acc, A, B, lda, ldb, row, col, t), ub,
                       A, B, lda, ldb, row, col, t, cnt, mode)

\* An action of the harness runs up to Burst consecutive iterations of a loop.
Burst == 16

Min(a, b) == IF a < b THEN a ELSE b

\* cpu.rs:15-17   the next iterations of `for t in 0..k`
CpuAcc ==
    /\ gemm.pc = "cpu_acc"
    /\ gemm.t < gemm.k
    /\ LET cnt == Min(Burst, gemm.k - gemm.t)
       IN  gemm' = [gemm EXCEPT
                  !.acc = CpuAccRun(gemm.acc, gemm.A, gemm.B, gemm.n, gemm.k,
                                    gemm.row, gemm.col, gemm.t, cnt),
                  !.t = gemm.t + cnt,
                  !.pc = IF gemm.t + cnt < gemm.k THEN "cpu_acc"
                         ELSE IF gemm.execs = "cpu" THEN "cpu_q"
                         ELSE "ker_acc"]
    /\ UNCHANGED NotGemm

\* cl_kernels.rs:15-19   the next iterations of `for (t = 0; t < K; ++t)`, with
\* lda = k, ldb = n (gpu.rs:44).  The device's behaviour on overflow is fixed
\* by the first overflow.
KernelAcc ==
    /\ gemm.pc = "ker_acc"
    /\ gemm.kt < gemm.k
    /\ LET cnt == Min(Burst, gemm.k - gemm.kt)
       IN  \E mode \in KernelOverflowModes :
             /\ gemm.kmode # "none" => mode = gemm.kmode
             /\ LET r == KernelAccRun(gemm.kacc, gemm.kub,
                                      gemm.A, gemm.B, gemm.k, gemm.n,
                                      gemm.row, gemm.col, gemm.kt, cnt, mode)
                IN  gemm' = [gemm EXCEPT
                      !.kacc = r.acc,
                      !.kub = r.ub,
                      !.kmode = IF r.ub THEN mode ELSE "none",
                      !.kt = gemm.kt + cnt,
                      !.pc = IF gemm.kt + cnt = gemm.k THEN "cpu_q" ELSE "ker_acc"]
    /\ UNCHANGED NotGemm

\* cpu.rs:18-21   requantize, clamp and store, for the scale of the call
CpuRequantize ==
    /\ gemm.pc = "cpu_q"
    /\ \E num \in ScaleNums, den \in ScaleDens, profile \in {"debug", "release"} :
          LET r == CpuRequant(gemm.acc, num, den, profile)
          IN  gemm' = [gemm EXCEPT
                  !.num = num, !.den = den,
                  !.panic = r.panic, !.q = r.q,
                  !.y = IF r.panic THEN 0 ELSE CpuClamp(r.q),
                  !.pc = IF gemm.execs = "cpu" THEN "done" ELSE "ker_q"]
    /\ UNCHANGED NotGemm

\* cl_kernels.rs:21-24   requantize, clamp and store, same scale
KernelRequantize ==
    /\ gemm.pc = "ker_q"
    /\ LET tmp == KernelRequant(gemm.kacc, gemm.num, gemm.den)
       IN  gemm' = [gemm EXCEPT
                  !.ktmp = tmp, !.ky = KernelClamp(tmp), !.pc = "done"]
    /\ UNCHANGED NotGemm

GemmNext == CpuAcc \/ KernelAcc \/ CpuRequantize \/ KernelRequantize

FlipIdle == [pc |-> "idle"]
MixIdle == [pc |-> "idle"]
AttIdle == [pc |-> "idle"]

InitGemm == GemmInit /\ RestIdle({"gemm"})

SpecGemm == InitGemm /\ [][GemmNext]_vars

-----------------------------------------------------------------------------
(* Properties of gemm_int8_relu_q.                                         *)

BigAbs(x) == Big(FALSE, x.mag)

\* the dot product of row `row` of A and column `col` of B as the
\* mathematical sum: term by term, or k * a * b when both matrices are constant
RECURSIVE DotSum(_, _, _, _, _, _, _)
DotSum(A, B, n, k, row, col, t) ==
    IF t = k THEN 0
    ELSE MatElem(A, row * k + t) * MatElem(B, t * n + col)
         + DotSum(A, B, n, k, row, col, t + 1)

ExactDot(g) ==
    IF g.A.stride = 0 /\ g.B.stride = 0
    THEN BigMul(BigOfInt(g.k), BigOfInt(MatElem(g.A, 0) * MatElem(g.B, 0)))
    ELSE BigOfInt(DotSum(g.A, g.B, g.n, g.k, g.row, g.col, 0))

\* min(127, max(0, q))
ClampMath(q) ==
    IF BigLt(q, BigZero) THEN 0
    ELSE IF BigLt(BigOfInt(127), q) THEN 127
    ELSE BigToInt(q)

CpuStored == gemm.pc \in {"ker_q", "done"}
KernelStored == gemm.pc = "done" /\ gemm.execs = "both"

\* On constant matrices the scalar loop holds t * a * b after t iterations.
GemmUniformPrefix ==
    (gemm.pc # "idle" /\ gemm.A.stride = 0 /\ gemm.B.stride = 0)
        => gemm.acc = BigMul(BigOfInt(gemm.t),
                             BigOfInt(MatElem(gemm.A, 0) * MatElem(gemm.B, 0)))

\* C1: for all m, n, k >= 1, all i8 matrices and all scales with den # 0 the
\* scalar executor returns, at every (r, c),
\* Y[r,c] = min(127, max(0, trunc(dot(A[r,:], B[:,c]) * num / den))).
\* Refuted: acc * num leaves i64 for k = 2^18 + 1, operands -128 and
\* num = i32::MAX; the call panics or stores the clamp of the wrapped product.
C1_CpuGemmContract ==
    CpuStored =>
        /\ ~gemm.panic
        /\ gemm.y = ClampMath(BigDivTrunc(BigMul(ExactDot(gemm), BigOfInt(gemm.num)),
                                          BigOfInt(gemm.den)))

\* C2: on identical inputs the OpenCL kernel (32-bit accumulator) and the
\* scalar executor (64-bit accumulator) store the same byte, for every
\* supported size and every operand value.
\* Refuted: at k = 2^17 with operands -128 the kernel's int overflows.
C2_KernelMatchesCpu ==
    (KernelStored /\ ~gemm.panic) => gemm.ky = gemm.y

NoPartialSumOverflow ==
    /\ ~gemm.kub
    /\ BigLt(BigAbs(gemm.kacc), BigPow2(31))
    /\ BigLt(BigAbs(gemm.acc), BigPow2(31))

\* C3 as stated: for every k <= 2^23 the partial sums of the dot product
\* stay below 2^31 in magnitude and the kernel's 32-bit accumulator never
\* overflows.
C3_NoOverflowUpTo2p23 ==
    (gemm.pc # "idle" /\ gemm.execs = "both" /\ gemm.k <= 2^23)
        => NoPartialSumOverflow

\* C3 amended: for every k <= 2^17 - 1 the partial sums of the dot product
\* stay below 2^31 in magnitude and the kernel's 32-bit accumulator never
\* overflows (|a * b| <= 2^14, and k * 2^14 < 2^31 exactly when k < 2^17).
C3_NoOverflowBelow2p17 ==
    (gemm.pc # "idle" /\ gemm.execs = "both" /\ gemm.k <= 2^17 - 1)
        => NoPartialSumOverflow

\* the longest run of the amended range, on the operands of largest product,
\* with both loops finished
C3_Witness ==
    /\ gemm.pc = "cpu_q"
    /\ gemm.k = 2^17 - 1 /\ gemm.kt = gemm.k
    /\ gemm.A = UniformMin /\ gemm.B = UniformMin
    /\ gemm.kacc = BigSub(BigPow2(31), BigPow2(14))

\* C4: every element stored by gemm_int8_relu_q lies in [0, 127], for all
\* operands and all scales with den # 0, negative ones included: a negative
\* requantized value is stored as 0 and one above 127 as 127.
C4_OutputRange ==
    /\ (CpuStored /\ ~gemm.panic) =>
          /\ gemm.y \in 0 .. 127
          /\ BigLt(gemm.q, BigZero) => gemm.y = 0
          /\ BigLt(BigOfInt(127), gemm.q) => gemm.y = 127
    /\ KernelStored =>
          /\ gemm.ky \in 0 .. 127
          /\ BigLt(gemm.ktmp, BigZero) => gemm.ky = 0
          /\ BigLt(BigOfInt(127), gemm.ktmp) => gemm.ky = 127

\* both executors have stored an element whose requantized value, under a
\* negative num and a negative den, is above 127
C4_Witness ==
    /\ KernelStored /\ ~gemm.panic
    /\ gemm.num < 0 /\ gemm.den < 0
    /\ BigLt(BigOfInt(127), gemm.q) /\ gemm.y = 127
    /\ BigLt(BigOfInt(127), gemm.ktmp) /\ gemm.ky = 127

\* cpu.rs:18, cl_kernels.rs:21   the 64-bit product acc * num that is divided
RequantProduct(acc, num) ==
    LET exact == BigMul(acc, BigOfInt(num))
    IN  IF BigFits(exact, 64) THEN exact ELSE BigWrap(exact, 64)

\* the division of the kernel has a result (LONG_MIN / -1 has none)
KernelDivisionDefined ==
    ~(gemm.den = -1 /\ RequantProduct(gemm.kacc, gemm.num) = BigNeg(BigPow2(63)))

\* the quotient of the scalar executor, had the division rounded toward
\* negative infinity
CpuFloorQuotient ==
    BigDivFloor(RequantProduct(gemm.acc, gemm.num), BigOfInt(gemm.den))

\* the same for the kernel
KernelFloorQuotient ==
    BigDivFloor(RequantProduct(gemm.kacc, gemm.num), BigOfInt(gemm.den))

\* C39: for every accumulator and every scale with den # 0, the stored
\* output element is the one a division rounding toward negative infinity
\* would have given: the two roundings differ only for negative quotients,
\* which are clamped to 0.  Stated of every division that has a result, in
\* the scalar executor and in the kernel.
C39_RoundingNotObservable ==
    /\ (CpuStored /\ ~gemm.panic) => gemm.y = CpuClamp(CpuFloorQuotient)
    /\ (KernelStored /\ KernelDivisionDefined)
          => gemm.ky = KernelClamp(KernelFloorQuotient)

\* Both executors have stored an element for a negative accumulator whose
\* quotient the two roundings give differently (truncated to q, floored to
\* q - 1), and the element is 0.
C39_Witness ==
    /\ KernelStored /\ ~gemm.panic /\ KernelDivisionDefined
    /\ gemm.acc.neg /\ gemm.kacc.neg
    /\ CpuFloorQuotient # gemm.q /\ gemm.y = 0
    /\ KernelFloorQuotient # gemm.ktmp /\ gemm.ky = 0

-----------------------------------------------------------------------------
(* sign_flip_i8 (attempt.rs:15-18).                                        *)
(*                                                                         *)
(* A result is [overflow, val]: overflow says that the i8 negation         *)
(* overflowed (a panic in a build with overflow checks, the wrapped val in *)
(* one without).                                                           *)

\* attempt.rs:17   `-value` on an i8
NegI8(value) == [overflow |-> value = I8_MIN, val |-> WrapI8(-value)]

\* A plausible slip: the i8::MIN case is left out.
sign_flip_unsaturated(value, sign) ==
    IF sign >= 0 THEN [overflow |-> FALSE, val |-> value] ELSE NegI8(value)

\* A plausible slip: `!value` (bitwise not) is written for `-value`.
sign_flip_bitnot(value, sign) ==
    IF sign >= 0 THEN [overflow |-> FALSE, val |-> value]
    ELSE IF value = I8_MIN THEN [overflow |-> FALSE, val |-> 127]
    ELSE [overflow |-> FALSE, val |-> -value - 1]

\* attempt.rs:15-18
sign_flip_i8(value, sign) ==
    IF sign >= 0 THEN [overflow |-> FALSE, val |-> value]
    ELSE IF value = I8_MIN THEN [overflow |-> FALSE, val |-> 127]
    ELSE NegI8(value)

\* the signs the harness passes: the two of a sign mask and other i8 values
FlipSigns == {-128, -1, 0, 1, 127}

\* The harness calls sign_flip_i8(value, sign) for value = -128, -127, ...,
\* 127 in turn; outs[i] is the result for value = -129 + i.
FlipInit ==
    \E sign \in FlipSigns :
        flip = [pc |-> "scan", sign |-> sign, value |-> I8_MIN, outs |-> <<>>]

FlipCall ==
    /\ flip.pc = "scan"
    /\ flip' = [flip EXCEPT
                  !.outs = Append(flip.outs, sign_flip_i8(flip.value, flip.sign)),
                  !.value = flip.value + 1,
                  !.pc = IF flip.value = I8_MAX THEN "done" ELSE "scan"]
    /\ UNCHANGED NotFlip

FlipNext == FlipCall

InitFlip == FlipInit /\ RestIdle({"flip"})

SpecFlip == InitFlip /\ [][FlipNext]_vars

FlipArg(i) == I8_MIN + i - 1

\* C6: sign_flip_i8(v, s) is v for s = +1, -v for s = -1 and v # -128, and
\* 127 for s = -1 and v = -128; the result is an i8 and no negation overflows.
C6_SignFlipValue ==
    flip.pc # "idle" =>
        \A i \in 1 .. Len(flip.outs) :
            /\ ~flip.outs[i].overflow
            /\ flip.outs[i].val \in I8
            /\ flip.sign = 1 => flip.outs[i].val = FlipArg(i)
            /\ (flip.sign = -1 /\ FlipArg(i) # -128) => flip.outs[i].val = -FlipArg(i)
            /\ (flip.sign = -1 /\ FlipArg(i) = -128) => flip.outs[i].val = 127

\* sign_flip_i8(-128, -1) has returned 127
C6_Witness ==
    /\ flip.pc = "scan" /\ flip.sign = -1
    /\ Len(flip.outs) = 1 /\ flip.outs[1].val = 127

FlipImage(lo) == {flip.outs[i].val : i \in (lo - I8_MIN + 1) .. Len(flip.outs)}

FlipInjectiveFrom(lo) ==
    \A i, j \in (lo - I8_MIN + 1) .. Len(flip.outs) :
        i # j => flip.outs[i].val # flip.outs[j].val

\* C7 as stated: v -> sign_flip_i8(v, -1) is a bijection on [-128, 127]: no
\* two inputs share an output and every i8 value is an output.
C7_BijectionOnI8 ==
    (flip.pc = "done" /\ flip.sign = -1) =>
        /\ FlipInjectiveFrom(-128)
        /\ FlipImage(-128) = I8

\* C7 amended: v -> sign_flip_i8(v, -1) is a bijection of [-127, 127] onto
\* itself (-128 is sent to 127, the image of -127, and is no output).
C7_BijectionOnSymmetricRange ==
    (flip.pc # "idle" /\ flip.sign = -1) =>
        /\ FlipInjectiveFrom(-127)
        /\ flip.pc = "done" => FlipImage(-127) = -127 .. 127

\* the scan with sign -1 is complete; -128 and -127 were both sent to 127
C7_Witness ==
    /\ flip.pc = "done" /\ flip.sign = -1
    /\ flip.outs[1].val = 127 /\ flip.outs[2].val = 127
    /\ flip.outs[256].val = -127

-----------------------------------------------------------------------------
(* apply_mix_a_columns and apply_mix_w1_rows (attempt.rs:35-61).           *)
(*                                                                         *)
(* A slice is a function on 0 .. len-1, a matrix a row-major slice.        *)

\* the slice of length len filled with pattern p
MatOf(p, len) == [i \in 0 .. len - 1 |-> MatElem(p, i)]

\* A plausible slip: the sign is taken at the new row, signs[new_row], and
\* not at the source row.
apply_mix_w1_rows_sign_at_dst(w1, k, n, perm, signs) ==
    [i \in 0 .. k * n - 1 |->
        LET new_row == i \div n
            col     == i % n
            src_row == perm[new_row]
        IN  sign_flip_i8(w1[src_row * n + col], signs[new_row]).val]

\* attempt.rs:35-46   out[row*k + new_col] = sign_flip_i8(a[row*k + perm[new_col]],
\*                                                       signs[perm[new_col]])
apply_mix_a_columns(a, m, k, perm, signs) ==
    [i \in 0 .. m * k - 1 |->
        LET row     == i \div k
            new_col == i % k
            src_col == perm[new_col]
        IN  sign_flip_i8(a[row * k + src_col], signs[src_col]).val]

\* attempt.rs:48-61   out[new_row*n + col] = sign_flip_i8(w1[perm[new_row]*n + col],
\*                                                       signs[perm[new_row]])
apply_mix_w1_rows(w1, k, n, perm, signs) ==
    [i \in 0 .. k * n - 1 |->
        LET new_row == i \div n
            col     == i % n
            src_row == perm[new_row]
        IN  sign_flip_i8(w1[src_row * n + col], signs[src_row]).val]

\* the permutations of 0 .. k-1
PermsOf(k) ==
    {p \in [0 .. k - 1 -> 0 .. k - 1] : \A i, j \in 0 .. k - 1 : i # j => p[i] # p[j]}

\* the sign vectors of length k
SignsOf(k) == [0 .. k - 1 -> {1, -1}]

MaxMixDim == 2
MaxMixK == 3

MixPatterns ==
    {[off |-> 1, stride |-> 1], [off |-> 4, stride |-> 1],
     [off |-> 6, stride |-> 0], UniformMin}

\* The harness mixes A and W1 with one (perm, signs), as run_attempt does
\* (attempt.rs:96-97), and then multiplies both pairs in exact integers.
MixInit ==
    \E m \in 1 .. MaxMixDim, n \in 1 .. MaxMixDim, k \in 1 .. MaxMixK :
      \E pa \in MixPatterns, pw \in MixPatterns, perm \in PermsOf(k), signs \in SignsOf(k) :
        mix = [pc |-> "mix_a", m |-> m, n |-> n, k |-> k,
               a |-> MatOf(pa, m * k), w1 |-> MatOf(pw, k * n),
               perm |-> perm, signs |-> signs,
               a_mixed |-> <<>>, w1_mixed |-> <<>>,
               prod |-> <<>>, prod_mixed |-> <<>>]

\* attempt.rs:96
MixColumns ==
    /\ mix.pc = "mix_a"
    /\ mix' = [mix EXCEPT
                 !.a_mixed = apply_mix_a_columns(mix.a, mix.m, mix.k, mix.perm, mix.signs),
                 !.pc = "mix_w1"]
    /\ UNCHANGED NotMix

\* attempt.rs:97
MixRows ==
    /\ mix.pc = "mix_w1"
    /\ mix' = [mix EXCEPT
                 !.w1_mixed = apply_mix_w1_rows(mix.w1, mix.k, mix.n, mix.perm, mix.signs),
                 !.pc = "multiply"]
    /\ UNCHANGED NotMix

\* sum over t in [from, k) of a[row, t] * b[t, col], in exact integers
RECURSIVE DotInt(_, _, _, _, _, _, _)
DotInt(a, b, n, k, row, col, from) ==
    IF from >= k THEN 0
    ELSE a[row * k + from] * b[from * n + col] + DotInt(a, b, n, k, row, col, from + 1)

\* the matrix product of a (m x k) and b (k x n)
MatMul(a, b, m, n, k) ==
    [i \in 0 .. m * n - 1 |-> DotInt(a, b, n, k, i \div n, i % n, 0)]

MixMultiply ==
    /\ mix.pc = "multiply"
    /\ mix' = [mix EXCEPT
                 !.prod = MatMul(mix.a, mix.w1, mix.m, mix.n, mix.k),
                 !.prod_mixed = MatMul(mix.a_mixed, mix.w1_mixed, mix.m, mix.n, mix.k),
                 !.pc = "done"]
    /\ UNCHANGED NotMix

MixNext == MixColumns \/ MixRows \/ MixMultiply

InitMix == MixInit /\ RestIdle({"mix"})

SpecMix == InitMix /\ [][MixNext]_vars

NoI8Min(x) == \A i \in DOMAIN x : x[i] # I8_MIN

\* C5: for A (m x k) and W1 (k x n) without the value -128, any permutation
\* perm of [0, k) and any signs in {+1, -1}^k, the mixed matrices have the
\* same product: A' * W1' = A * W1 element by element, in exact integers.
C5_MixingInvariance ==
    (mix.pc = "done" /\ NoI8Min(mix.a) /\ NoI8Min(mix.w1))
        => mix.prod_mixed = mix.prod

\* a product of -128-free matrices, mixed with a permutation that moves
\* every column and a mask of both signs, with a non-zero element
C5_Witness ==
    /\ mix.pc = "done" /\ mix.k = 3
    /\ NoI8Min(mix.a) /\ NoI8Min(mix.w1)
    /\ \A i \in 0 .. 2 : mix.perm[i] # i
    /\ mix.signs[0] = -1 /\ mix.signs[1] = 1
    /\ mix.a_mixed # mix.a /\ mix.w1_mixed # mix.w1
    /\ \E i \in DOMAIN mix.prod : mix.prod[i] # 0
    /\ mix.prod_mixed = mix.prod

-----------------------------------------------------------------------------
(* run_attempt (attempt.rs:70-125) and what it calls.                      *)
(*                                                                         *)
(* The libraries are held abstractly.  A blake3 digest is the term         *)
(* [blake3 |-> pre-image] (distinct pre-images give distinct digests), and *)
(* its first 16 bytes the term [first16 |-> digest].  A generator          *)
(* (Xoshiro128++, StdRng) is a fixed function of its seed and of the       *)
(* position in its output stream; the program reads only the low 8 bits    *)
(* (`as i8`) and the low bit (`& 1`) of an output word, so a word is held  *)
(* by its low 16 bits.                                                     *)

\* the first `width` bytes of x, little-endian (to_le_bytes)
RECURSIVE LeBytes(_, _)
LeBytes(x, width) ==
    IF width = 0 THEN <<>> ELSE <<x % 256>> \o LeBytes(x \div 256, width - 1)

Blake3(bytes) == [blake3 |-> bytes]

First16(digest) == [first16 |-> digest]

\* a number drawn from a byte string, by which the generators' streams are
\* told apart
RECURSIVE BytesWord(_)
BytesWord(bytes) ==
    IF bytes = <<>> THEN 7
    ELSE ((BytesWord(Tail(bytes)) * 31) + Head(bytes)) % 4093

SeedWord(seed16) == BytesWord(seed16.first16.blake3)

\* prng.rs:13   the low 16 bits of output number pos of the generator
\* seeded with seed16
XoshiroWord(seed16, pos) ==
    LET w == SeedWord(seed16)
    IN  ((w * 97) + ((pos + 1) * 57) + ((((w + 3) * (pos + 5)) % 251) * 13)
         + (((w + pos) % 7) * 4099)) % 65536

\* prng.rs:7-11   DPrng::from_seed
DPrngFromSeed(seed16) == [seed |-> seed16, pos |-> 0]

\* A plausible slip: the i8 is taken from the second byte of the output,
\* `(next_u32() >> 8) as i8`.
next_i8_second_byte(pr) == WrapI8((XoshiroWord(pr.seed, pr.pos) \div 256) % 256)

\* prng.rs:12   next_i8: `next_u32() as i8`
next_i8(pr) == WrapI8(XoshiroWord(pr.seed, pr.pos) % 256)

\* prng.rs:13   next_u32, by its low 16 bits
next_u32(pr) == XoshiroWord(pr.seed, pr.pos)

\* the generator after cnt draws
Advance(pr, cnt) == [pr EXCEPT !.pos = pr.pos + cnt]

\* A plausible slip: the nonce is narrowed to one byte before it is hashed.
derive_seed_nonce_u8(prev_hash_32, nonce) ==
    First16(Blake3(prev_hash_32 \o LeBytes(nonce, 1)))

\* prng.rs:17-25   derive_seed; the nonce is a u32, four bytes
derive_seed(prev_hash_32, nonce) ==
    First16(Blake3(prev_hash_32 \o LeBytes(nonce, 4)))

\* attempt.rs:8-12   gen_int8_matrix: len draws of next_i8
gen_int8_matrix(pr, len) ==
    [v |-> [i \in 0 .. len - 1 |-> next_i8(Advance(pr, i))],
     pr |-> Advance(pr, len)]

\* attempt.rs:22-24 and 106-109   `(0..len).collect()` shuffled by the StdRng
\* seeded with the digest of seed16: a permutation of 0 .. len-1 fixed by
\* the seed and the length (here a rotation or a reflection)
Shuffled(seed16, len) ==
    LET w == BytesWord(<<SeedWord(seed16) % 256, SeedWord(seed16) \div 256>>)
    IN  [i \in 0 .. len - 1 |->
            IF (w \div 5) % 2 = 0 THEN (w + i) % len
            ELSE (((w % len) + len) - i) % len]

\* attempt.rs:20-33   build_permutation_and_signs
build_permutation_and_signs(k, seed16) ==
    LET pr == DPrngFromSeed(seed16)
    IN  [perm  |-> Shuffled(seed16, k),
         signs |-> [i \in 0 .. k - 1 |->
                      IF next_u32(Advance(pr, i)) % 2 = 0 THEN 1 ELSE -1]]

\* attempt.rs:83   b"FIXED_WEIGHTS_V1"
FixedWeightsTag == <<70, 73, 88, 69, 68, 95, 87, 69, 73, 71, 72, 84, 83, 95, 86, 49>>

\* signed division rounding toward zero, in the model checker's integers
TruncDiv(x, d) ==
    IF (x < 0) = (d < 0)
    THEN (IF x < 0 THEN -x ELSE x) \div (IF d < 0 THEN -d ELSE d)
    ELSE -((IF x < 0 THEN -x ELSE x) \div (IF d < 0 THEN -d ELSE d))

\* cl_kernels.rs:14-24 through gpu.rs:39-78: the kernel on whole matrices.
\* The sums of an attempt of the harness stay far below 2^31 (k and n are at
\* most 3), so the int and long arithmetic is exact.
GpuGemm(a, b, m, n, k, scale_num, scale_den) ==
    [i \in 0 .. m * n - 1 |->
        LET tmp == TruncDiv(DotInt(a, b, n, k, i \div n, i % n, 0) * scale_num,
                            scale_den)
        IN  IF tmp < 0 THEN 0 ELSE IF tmp > 127 THEN 127 ELSE tmp]

\* attempt.rs:105
SampleCount == 256

\* The locals of one call of run_attempt; `out` is the AttemptOutput of a
\* call that returned Ok.  a0 and w1_0 are a and w1 before line 96 and 97
\* shadow them.
NewCall(prev_hash_32, nonce, sizes) ==
    [prev_hash_32 |-> prev_hash_32, nonce |-> nonce, sizes |-> sizes,
     result |-> "running",
     seed |-> <<>>, pr |-> <<>>, prw |-> <<>>,
     a0 |-> <<>>, w1_0 |-> <<>>, w2 |-> <<>>,
     perm |-> <<>>, signs |-> <<>>, a |-> <<>>, w1 |-> <<>>,
     y1 |-> <<>>, y2 |-> <<>>, elapsed_ms |-> 0,
     indices |-> <<>>, samp |-> <<>>, out |-> <<>>]

\* attempt.rs:76-84   seed, pr, w_seed, prw
AttemptSeeds(loc) ==
    LET seed == derive_seed(loc.prev_hash_32, loc.nonce)
    IN  [loc EXCEPT !.seed = seed,
                    !.pr = DPrngFromSeed(seed),
                    !.prw = DPrngFromSeed(First16(Blake3(FixedWeightsTag)))]

\* A plausible slip: the weights are drawn from the attempt's generator pr.
AttemptMatricesOnePrng(loc) ==
    LET m == loc.sizes.m  n == loc.sizes.n  k == loc.sizes.k
        ga  == gen_int8_matrix(loc.pr, m * k)
        gw1 == gen_int8_matrix(ga.pr, k * n)
        gw2 == gen_int8_matrix(gw1.pr, n * n)
    IN  [loc EXCEPT !.a0 = ga.v, !.w1_0 = gw1.v, !.w2 = gw2.v, !.pr = gw2.pr]

\* attempt.rs:86-88   a from pr; w1, then w2, from prw
AttemptMatrices(loc) ==
    LET m == loc.sizes.m  n == loc.sizes.n  k == loc.sizes.k
        ga  == gen_int8_matrix(loc.pr, m * k)
        gw1 == gen_int8_matrix(loc.prw, k * n)
        gw2 == gen_int8_matrix(gw1.pr, n * n)
    IN  [loc EXCEPT !.a0 = ga.v, !.w1_0 = gw1.v, !.w2 = gw2.v,
                    !.pr = ga.pr, !.prw = gw2.pr]

\* attempt.rs:95-97   permutation and sign mask, applied to a and to w1
AttemptMixed(loc) ==
    LET m == loc.sizes.m  n == loc.sizes.n  k == loc.sizes.k
        ps == build_permutation_and_signs(k, loc.seed)
    IN  [loc EXCEPT !.perm = ps.perm, !.signs = ps.signs,
                    !.a = apply_mix_a_columns(loc.a0, m, k, ps.perm, ps.signs),
                    !.w1 = apply_mix_w1_rows(loc.w1_0, k, n, ps.perm, ps.signs)]

\* attempt.rs:91-92
scale_num == 1
scale_den == 256

\* attempt.rs:100   y1 = gemm(a, w1, m, n, k)
AttemptY1(loc) ==
    [loc EXCEPT !.y1 = GpuGemm(loc.a, loc.w1, loc.sizes.m, loc.sizes.n,
                               loc.sizes.k, scale_num, scale_den)]

\* attempt.rs:101-102   y2 = gemm(y1, w2, m, n, n), and the time measured
AttemptY2(loc, elapsed_ms) ==
    [loc EXCEPT !.y2 = GpuGemm(loc.y1, loc.w2, loc.sizes.m, loc.sizes.n,
                               loc.sizes.n, scale_num, scale_den),
                !.elapsed_ms = elapsed_ms]

\* attempt.rs:105-113   the shuffled indices, `&indices[..sample_count]` and
\* the samples.  The slice panics when m*n < sample_count.
AttemptSampled(loc) ==
    LET indices == Shuffled(loc.seed, loc.sizes.m * loc.sizes.n)
    IN  IF loc.sizes.m * loc.sizes.n < SampleCount
        THEN [loc EXCEPT !.indices = indices, !.result = "panic"]
        ELSE [loc EXCEPT !.indices = indices,
                         !.samp = [i \in 0 .. SampleCount - 1 |-> loc.y2[indices[i]]]]

\* the bytes of a slice of i8 (`v as u8`), in order
SliceBytes(x, len) == [i \in 1 .. len |-> x[i - 1] % 256]

\* A plausible slip: the measured time is hashed into the work root.
AttemptFinishedTimed(loc, usize_bytes) ==
    [loc EXCEPT
       !.result = "ok",
       !.out = [work_root |-> Blake3(SliceBytes(loc.samp, SampleCount)
                                     \o LeBytes(loc.sizes.m, usize_bytes)
                                     \o LeBytes(loc.sizes.n, usize_bytes)
                                     \o LeBytes(loc.sizes.k, usize_bytes)
                                     \o LeBytes(loc.elapsed_ms, 8)),
                y1 |-> loc.y1, y2_samples |-> loc.samp,
                elapsed_ms |-> loc.elapsed_ms]]

\* attempt.rs:116-124   work_root = blake3(samples || m || n || k), each size
\* in the bytes of a usize of the platform; Ok(AttemptOutput)
AttemptFinished(loc, usize_bytes) ==
    [loc EXCEPT
       !.result = "ok",
       !.out = [work_root |-> Blake3(SliceBytes(loc.samp, SampleCount)
                                     \o LeBytes(loc.sizes.m, usize_bytes)
                                     \o LeBytes(loc.sizes.n, usize_bytes)
                                     \o LeBytes(loc.sizes.k, usize_bytes)),
                y1 |-> loc.y1, y2_samples |-> loc.samp,
                elapsed_ms |-> loc.elapsed_ms]]

(* The harness: one process calls run_attempt twice with the same sizes,   *)
(* as the worker loop does, on a platform whose usize has 4 or 8 bytes.    *)
MaxPrevHash == 1
MaxNonce == 1
MaxElapsed == 1

PrevHashes == {[i \in 1 .. 32 |-> (h * 17 + i) % 256] : h \in 0 .. MaxPrevHash}
Nonces == 0 .. MaxNonce
ElapsedMs == 0 .. MaxElapsed

AttemptSizes ==
    {[m |-> 1, n |-> 1, k |-> 1, batch |-> 1],
     [m |-> 256, n |-> 1, k |-> 1, batch |-> 1],
     [m |-> 128, n |-> 2, k |-> 3, batch |-> 1]}

UsizeBytes == {4, 8}

NoCall == [result |-> "none"]

AttemptInit ==
    \E prev_hash_32 \in PrevHashes, nonce \in Nonces, sizes \in AttemptSizes,
       usize_bytes \in UsizeBytes :
        att = [pc |-> "seed", usize_bytes |-> usize_bytes,
               loc |-> NewCall(prev_hash_32, nonce, sizes), prev |-> NoCall]

\* attempt.rs:76-84
AttemptSeed ==
    /\ att.pc = "seed"
    /\ att' = [att EXCEPT !.loc = AttemptSeeds(att.loc), !.pc = "gen"]
    /\ UNCHANGED NotAtt

\* attempt.rs:86-88
AttemptGen ==
    /\ att.pc = "gen"
    /\ att' = [att EXCEPT !.loc = AttemptMatrices(att.loc), !.pc = "mix"]
    /\ UNCHANGED NotAtt

\* attempt.rs:95-97
AttemptMix ==
    /\ att.pc = "mix"
    /\ att' = [att EXCEPT !.loc = AttemptMixed(att.loc), !.pc = "gemm1"]
    /\ UNCHANGED NotAtt

\* attempt.rs:100   the first GEMM; `?` returns the executor's error
AttemptGemm1 ==
    /\ att.pc = "gemm1"
    /\ \E ok \in BOOLEAN :
         att' = IF ok
                THEN [att EXCEPT !.loc = AttemptY1(att.loc), !.pc = "gemm2"]
                ELSE [att EXCEPT !.loc.result = "err", !.pc = "returned"]
    /\ UNCHANGED NotAtt

\* attempt.rs:101-102   the second GEMM and the elapsed time
AttemptGemm2 ==
    /\ att.pc = "gemm2"
    /\ \E ok \in BOOLEAN, elapsed_ms \in ElapsedMs :
         att' = IF ok
                THEN [att EXCEPT !.loc = AttemptY2(att.loc, elapsed_ms), !.pc = "sample"]
                ELSE [att EXCEPT !.loc.result = "err", !.pc = "returned"]
    /\ UNCHANGED NotAtt

\* attempt.rs:105-113
AttemptSample ==
    /\ att.pc = "sample"
    /\ LET loc == AttemptSampled(att.loc)
       IN  att' = [att EXCEPT !.loc = loc,
                              !.pc = IF loc.result = "panic" THEN "returned" ELSE "root"]
    /\ UNCHANGED NotAtt

\* attempt.rs:116-124
AttemptRoot ==
    /\ att.pc = "root"
    /\ att' = [att EXCEPT !.loc = AttemptFinished(att.loc, att.usize_bytes),
                          !.pc = "returned"]
    /\ UNCHANGED NotAtt

\* the second call, after the first returned Ok or Err
AttemptCallAgain ==
    /\ att.pc = "returned"
    /\ att.prev = NoCall
    /\ att.loc.result \in {"ok", "err"}
    /\ \E prev_hash_32 \in PrevHashes, nonce \in Nonces :
         att' = [att EXCEPT !.prev = att.loc,
                            !.loc = NewCall(prev_hash_32, nonce, att.loc.sizes),
                            !.pc = "seed"]
    /\ UNCHANGED NotAtt

AttemptNext ==
    \/ AttemptSeed \/ AttemptGen \/ AttemptMix \/ AttemptGemm1 \/ AttemptGemm2
    \/ AttemptSample \/ AttemptRoot \/ AttemptCallAgain

InitAttempt == AttemptInit /\ RestIdle({"att"})

SpecAttempt == InitAttempt /\ [][AttemptNext]_vars

-----------------------------------------------------------------------------
(* Properties of run_attempt.                                              *)

BothReturnedOk ==
    att.pc = "returned" /\ att.prev.result = "ok" /\ att.loc.result = "ok"

SameInputs ==
    /\ att.prev.prev_hash_32 = att.loc.prev_hash_32
    /\ att.prev.nonce = att.loc.nonce
    /\ att.prev.sizes = att.loc.sizes

Generated(loc) == loc.result # "none" /\ loc.a0 # <<>>

WeightStream(pos) ==
    next_i8([seed |-> First16(Blake3(FixedWeightsTag)), pos |-> pos])

\* C9: the weights do not depend on the attempt: two calls with equal sizes
\* have the same W1 (before mixing) and the same W2, whatever prev_hash_32
\* and nonce; W1 is the first k*n draws and W2 the next n*n draws of the
\* generator seeded by the fixed tag, which nothing else advances.
C9_FixedWeights ==
    /\ (att.pc # "idle" /\ Generated(att.prev) /\ Generated(att.loc)) =>
          /\ att.prev.w1_0 = att.loc.w1_0
          /\ att.prev.w2 = att.loc.w2
    /\ (att.pc # "idle" /\ Generated(att.loc)) =>
          LET n == att.loc.sizes.n  k == att.loc.sizes.k
          IN  /\ att.loc.w1_0 = [i \in 0 .. k * n - 1 |-> WeightStream(i)]
              /\ att.loc.w2 = [i \in 0 .. n * n - 1 |-> WeightStream(k * n + i)]
              /\ att.loc.prw.pos = k * n + n * n

\* two calls with different nonces returned Ok: different A, the same
\* weights of more than one element
C9_Witness ==
    /\ BothReturnedOk
    /\ att.prev.nonce # att.loc.nonce
    /\ att.prev.a0 # att.loc.a0
    /\ att.loc.sizes.k * att.loc.sizes.n > 1
    /\ \E i \in DOMAIN att.loc.w1_0 : att.loc.w1_0[i] # att.loc.w1_0[0]
    /\ att.prev.w1_0 = att.loc.w1_0 /\ att.prev.w2 = att.loc.w2

\* C10: for every Sizes with positive m, n, k, a run_attempt whose two GEMM
\* calls succeeded completes without failure and returns exactly 256
\* samples, y2_samples[i] = Y2[indices[i]] for the first 256 entries of a
\* shuffled permutation of [0, m*n).
\* Refuted: `&indices[..256]` panics whenever m*n < 256.
C10_AttemptCompletes ==
    (att.pc = "returned" /\ att.loc.y2 # <<>>) =>
        /\ att.loc.result = "ok"
        /\ DOMAIN att.loc.out.y2_samples = 0 .. SampleCount - 1
        /\ \A i \in 0 .. SampleCount - 1 :
              /\ att.loc.indices[i] \in 0 .. att.loc.sizes.m * att.loc.sizes.n - 1
              /\ att.loc.out.y2_samples[i] = att.loc.y2[att.loc.indices[i]]
        /\ \A i, j \in 0 .. SampleCount - 1 :
              i # j => att.loc.indices[i] # att.loc.indices[j]

\* C11: the pre-image of the work root is the 256 sample bytes followed by
\* m, n and k, each as exactly 8 little-endian bytes, on every platform
\* whatever its word size.
\* Refuted: m, n, k are usize and to_le_bytes gives 4 bytes each on a
\* 32-bit platform.
C11_SizesEightBytes ==
    (att.pc = "returned" /\ att.loc.result = "ok") =>
        att.loc.out.work_root =
            Blake3(SliceBytes(att.loc.out.y2_samples, SampleCount)
                   \o LeBytes(att.loc.sizes.m, 8)
                   \o LeBytes(att.loc.sizes.n, 8)
                   \o LeBytes(att.loc.sizes.k, 8))

\* run_attempt has drawn a and built the sign mask (attempt.rs:86-95)
SignsBuilt == att.pc \in {"gemm1", "gemm2", "sample", "root", "returned"}

\* C40: in run_attempt, for every column c in [0, k) the sign s[c] is -1
\* exactly when the unmixed entry A[0, c] is odd and +1 exactly when it is
\* even: the generator of A and the generator of the signs start from the
\* same seed, and the c-th draw of each reads the same output word.
C40_SignsFollowInputParity ==
    SignsBuilt =>
        \A c \in 0 .. att.loc.sizes.k - 1 :
            /\ att.loc.signs[c] = -1 <=> att.loc.a0[0 * att.loc.sizes.k + c] % 2 = 1
            /\ att.loc.signs[c] = 1 <=> att.loc.a0[0 * att.loc.sizes.k + c] % 2 = 0

\* A call with k = 3 has built a mask that holds both signs: a column with
\* an odd first entry and the sign -1, a column with an even first entry
\* and the sign +1; the first row of A has a negative entry.
C40_Witness ==
    /\ SignsBuilt /\ att.loc.sizes.k = 3
    /\ \E c \in 0 .. 2 : att.loc.signs[c] = -1 /\ att.loc.a0[c] % 2 = 1
    /\ \E c \in 0 .. 2 : att.loc.signs[c] = 1 /\ att.loc.a0[c] % 2 = 0
    /\ \E c \in 0 .. 2 : att.loc.a0[c] < 0

-----------------------------------------------------------------------------
(* derive_seed (prng.rs:17-25), called on several inputs.                  *)

\* prev_hash_32 values: 0xAA..AA (main.rs:127), and it with the first or the
\* last byte changed
SeedPrevHashes ==
    {[i \in 1 .. 32 |-> 170],
     [i \in 1 .. 32 |-> IF i = 1 THEN 171 ELSE 170],
     [i \in 1 .. 32 |-> IF i = 32 THEN 0 ELSE 170]}

\* nonces (u32) that differ in each of the four bytes
SeedNonces == {0, 1, 255, 256, 65536, 16777216, I32_MAX}

MaxSeedCalls == 2

SeedsInit == seeds = [pc |-> "call", calls |-> <<>>]

\* prng.rs:17-25   one call of derive_seed
DeriveSeedCall ==
    /\ seeds.pc = "call"
    /\ Len(seeds.calls) < MaxSeedCalls
    /\ \E prev_hash_32 \in SeedPrevHashes, nonce \in SeedNonces :
         seeds' = [seeds EXCEPT !.calls =
                     Append(seeds.calls,
                            [prev_hash_32 |-> prev_hash_32, nonce |-> nonce,
                             seed |-> derive_seed(prev_hash_32, nonce)])]
    /\ UNCHANGED NotSeeds

SeedsNext == DeriveSeedCall

InitSeeds == SeedsInit /\ RestIdle({"seeds"})

SpecSeeds == InitSeeds /\ [][SeedsNext]_vars

\* the bytes hashed by a call
SeedPreimage(call) == call.seed.first16.blake3

\* C12: derive_seed is a function of (prev_hash_32, nonce); the hashed
\* pre-image prev_hash_32 || LE32(nonce) has 36 bytes and is injective in
\* (prev_hash_32, nonce), so two calls return the same seed exactly when
\* their inputs are equal, short of a collision of the hash.
C12_SeedInjective ==
    seeds.pc # "idle" =>
        \A i, j \in 1 .. Len(seeds.calls) :
            LET ci == seeds.calls[i]
                cj == seeds.calls[j]
                same == ci.prev_hash_32 = cj.prev_hash_32 /\ ci.nonce = cj.nonce
            IN  /\ Len(SeedPreimage(ci)) = 36
                /\ SubSeq(SeedPreimage(ci), 1, 32) = ci.prev_hash_32
                /\ same => ci.seed = cj.seed
                /\ ~same => SeedPreimage(ci) # SeedPreimage(cj)
                /\ ci.seed = cj.seed => SeedPreimage(ci) = SeedPreimage(cj)

\* two calls whose nonces differ only above the low byte, and two calls
\* with equal inputs
C12_Witness ==
    /\ seeds.pc = "call" /\ Len(seeds.calls) = 2
    /\ seeds.calls[1].prev_hash_32 = seeds.calls[2].prev_hash_32
    /\ seeds.calls[1].nonce = 0 /\ seeds.calls[2].nonce = 256
    /\ seeds.calls[1].seed # seeds.calls[2].seed

-----------------------------------------------------------------------------
(* Secp::sign_receipt (signing.rs:16-26) on WorkReceipt (types.rs:6-18).   *)
(*                                                                         *)
(* A string is a sequence of characters, the u32 nonce a magnitude (it     *)
(* leaves the model checker's integers), a JSON text a sequence of         *)
(* characters and of fixed pieces (the punctuation and the quoted field    *)
(* names serde writes in the order of the struct).  Hashes and the         *)
(* deterministic ECDSA signature are terms over what they are computed     *)
(* from.                                                                   *)

\* serde_json: a string value, quoted, with `"` and `\` escaped
RECURSIVE JsonEscape(_)
JsonEscape(str) ==
    IF str = <<>> THEN <<>>
    ELSE (IF Head(str) \in {"\"", "\\"} THEN <<"\\", Head(str)>> ELSE <<Head(str)>>)
         \o JsonEscape(Tail(str))

JsonString(str) == <<"\"">> \o JsonEscape(str) \o <<"\"">>

\* serde_json: an unsigned integer, in decimal digits
RECURSIVE JsonNumber(_)
JsonNumber(x) ==
    LET digit == <<"0", "1", "2", "3", "4", "5", "6", "7", "8", "9">>[(x % 10) + 1]
    IN  IF x < 10 THEN <<digit>> ELSE JsonNumber(x \div 10) \o <<digit>>

\* the same for a u32 held as a magnitude (the nonce, which reaches 2^32 - 1)
RECURSIVE JsonNumberU32(_)
JsonNumberU32(x) ==
    LET h == MagDivLimb(x, 10)
        digit == <<"0", "1", "2", "3", "4", "5", "6", "7", "8", "9">>[h.r + 1]
    IN  IF h.q = <<>> THEN <<digit>> ELSE JsonNumberU32(h.q) \o <<digit>>

\* types.rs:3-4   Sizes, as serde writes it
JsonSizes(sz) ==
    <<"{", "\"m\":">> \o JsonNumber(sz.m) \o <<",", "\"n\":">> \o JsonNumber(sz.n)
    \o <<",", "\"k\":">> \o JsonNumber(sz.k)
    \o <<",", "\"batch\":">> \o JsonNumber(sz.batch) \o <<"}">>

\* types.rs:6-18   WorkReceipt, as serde_json::to_vec writes it
JsonReceipt(r) ==
    <<"{", "\"device_did\":">> \o JsonString(r.device_did)
    \o <<",", "\"epoch_id\":">> \o JsonNumber(r.epoch_id)
    \o <<",", "\"prev_hash_hex\":">> \o JsonString(r.prev_hash_hex)
    \o <<",", "\"nonce\":">> \o JsonNumberU32(r.nonce)
    \o <<",", "\"work_root_hex\":">> \o JsonString(r.work_root_hex)
    \o <<",", "\"sizes\":">> \o JsonSizes(r.sizes)
    \o <<",", "\"time_ms\":">> \o JsonNumber(r.time_ms)
    \o <<",", "\"kernel_ver\":">> \o JsonString(r.kernel_ver)
    \o <<",", "\"driver_hint\":">> \o JsonString(r.driver_hint)
    \o <<",", "\"sig_hex\":">> \o JsonString(r.sig_hex)
    \o <<"}">>

Sha256(bytes) == [sha256 |-> bytes]

\* signing.rs:24-25   the hex of the signature of a digest under a key: a
\* text that is never empty, held as one symbol
SignPrehash(sk, digest) == <<[sk |-> sk, signed |-> digest]>>

\* A plausible slip: the copy keeps the sig_hex of the receipt.
sign_receipt_keeps_sig(sk, r) ==
    SignPrehash(sk, Sha256(Blake3(JsonReceipt(r))))

\* signing.rs:16-26   sign_receipt, when no step fails
sign_receipt(sk, r) ==
    LET copy == [r EXCEPT !.sig_hex = <<>>]
    IN  SignPrehash(sk, Sha256(Blake3(JsonReceipt(copy))))

\* The receipts of the harness: one receipt and those that differ from it in
\* one field, each with an empty and with a filled sig_hex.
BaseReceipt ==
    [device_did |-> <<"d", "i", "d">>, epoch_id |-> 1,
     prev_hash_hex |-> <<"a", "a">>, nonce |-> MagOfNat(1),
     work_root_hex |-> <<"0", "f">>,
     sizes |-> [m |-> 1024, n |-> 1024, k |-> 1024, batch |-> 1],
     time_ms |-> 12, kernel_ver |-> <<"v", "1">>, driver_hint |-> <<"O">>,
     sig_hex |-> <<>>]

ReceiptVariants ==
    {BaseReceipt,
     [BaseReceipt EXCEPT !.device_did = <<"d", "i", "d", "\"">>],
     [BaseReceipt EXCEPT !.device_did = <<"d", "i", "d", "\\">>],
     [BaseReceipt EXCEPT !.epoch_id = 11],
     [BaseReceipt EXCEPT !.prev_hash_hex = <<"a", "b">>],
     [BaseReceipt EXCEPT !.nonce = MagOfNat(11)],
     [BaseReceipt EXCEPT !.nonce = MagOfNat(2)],
     [BaseReceipt EXCEPT !.nonce = MagSub(MagPow2(32), <<1>>)],
     [BaseReceipt EXCEPT !.work_root_hex = <<"0", "e">>],
     [BaseReceipt EXCEPT !.sizes.m = 512],
     [BaseReceipt EXCEPT !.sizes.n = 512],
     [BaseReceipt EXCEPT !.sizes.k = 512],
     [BaseReceipt EXCEPT !.sizes.batch = 2],
     [BaseReceipt EXCEPT !.time_ms = 13],
     [BaseReceipt EXCEPT !.kernel_ver = <<"v", "2">>],
     [BaseReceipt EXCEPT !.kernel_ver = <<"v", "1", "\"", ",">>],
     [BaseReceipt EXCEPT !.driver_hint = <<"C">>],
     [BaseReceipt EXCEPT !.driver_hint = <<>>]}

SigHexValues == {<<>>, <<"3", "0">>, <<"\"">>}

SigningKeys == {"sk1", "sk2"}

ReceiptInit ==
    \E r1 \in ReceiptVariants, r2 \in ReceiptVariants, sk \in SigningKeys,
       s1 \in SigHexValues, s2 \in SigHexValues :
        rcpt = [pc |-> "sign1", sk |-> sk,
                r1 |-> [r1 EXCEPT !.sig_hex = s1],
                r2 |-> [r2 EXCEPT !.sig_hex = s2],
                sig1 |-> <<>>, sig2 |-> <<>>]

\* signing.rs:16-26   sign_receipt on the first receipt
ReceiptSign1 ==
    /\ rcpt.pc = "sign1"
    /\ rcpt' = [rcpt EXCEPT !.sig1 = sign_receipt(rcpt.sk, rcpt.r1), !.pc = "sign2"]
    /\ UNCHANGED NotRcpt

\* signing.rs:16-26   sign_receipt on the second receipt
ReceiptSign2 ==
    /\ rcpt.pc = "sign2"
    /\ rcpt' = [rcpt EXCEPT !.sig2 = sign_receipt(rcpt.sk, rcpt.r2), !.pc = "done"]
    /\ UNCHANGED NotRcpt

ReceiptNext == ReceiptSign1 \/ ReceiptSign2

InitReceipt == ReceiptInit /\ RestIdle({"rcpt"})

SpecReceipt == InitReceipt /\ [][ReceiptNext]_vars

NonSigFields(r) ==
    <<r.device_did, r.epoch_id, r.prev_hash_hex, r.nonce, r.work_root_hex,
      r.sizes, r.time_ms, r.kernel_ver, r.driver_hint>>

\* the serialization a signature was computed over
SignedJson(sig) == sig[1].signed.sha256.blake3

\* C13: the digest signed by sign_receipt is a function of exactly the nine
\* non-signature fields: two receipts that differ in one of them have
\* different serializations, two that differ only in sig_hex have the same,
\* and the signature does not depend on the sig_hex already present.
C13_DigestCoversNineFields ==
    rcpt.pc = "done" =>
        /\ (NonSigFields(rcpt.r1) # NonSigFields(rcpt.r2))
              => SignedJson(rcpt.sig1) # SignedJson(rcpt.sig2)
        /\ (NonSigFields(rcpt.r1) = NonSigFields(rcpt.r2))
              => /\ SignedJson(rcpt.sig1) = SignedJson(rcpt.sig2)
                 /\ rcpt.sig1 = rcpt.sig2

\* two receipts that differ only in sig_hex got the same signature
C13_Witness ==
    /\ rcpt.pc = "done"
    /\ NonSigFields(rcpt.r1) = NonSigFields(rcpt.r2)
    /\ rcpt.r1.sig_hex = <<>> /\ rcpt.r2.sig_hex = <<"3", "0">>
    /\ rcpt.sig1 = rcpt.sig2

(***************************************************************************)
(* The worker loop of main (main.rs:206-302).  The locals that the loop    *)
(* never assigns (device_did, epoch_id, prev_hash_hex, sizes, the signing  *)
(* key) are definitions; the u32 nonce is a magnitude, so that it keeps    *)
(* its width; run_attempt is taken by its result (a work root that is a    *)
(* function of prev_hash, nonce and sizes, or an error), the aggregator by *)
(* its answer.  trail and submitted record what the loop did: one entry    *)
(* per attempt that was run, one per receipt that was posted.              *)
(***************************************************************************)
U32_MAX == MagSub(MagPow2(32), <<1>>)

\* u32::wrapping_add
wrapping_add(x, d) ==
    LET s == MagAdd(x, MagOfNat(d))
    IN  IF MagCmp(s, U32_MAX) > 0 THEN MagSub(s, MagPow2(32)) ELSE s

\* main.rs:125-129, 187-197
device_did == <<"d", "i", "d", ":", "p", "e", "a", "q", ":", "1">>
epoch_id == 1
prev_hash_hex == [i \in 1 .. 64 |-> "a"]
LoopSizes == [m |-> 1024, n |-> 1024, k |-> 1024, batch |-> 1]
secp == "sk1"

\* metrics.rs:69   min_time_ms is a u64 that starts at u64::MAX
U64Max == [is_u64_max |-> TRUE, ms |-> 0]
U64Ms(t) == [is_u64_max |-> FALSE, ms |-> t]

\* metrics.rs:54-73   MetricsCollector::new (start_time is not read here)
MetricsCollectorNew ==
    [total_attempts |-> 0, successful_attempts |-> 0, failed_attempts |-> 0,
     gpu_errors |-> 0, network_errors |-> 0, signature_errors |-> 0,
     validation_errors |-> 0, consecutive_failures |-> 0,
     last_success_time |-> "None", total_time_ms |-> 0,
     min_time_ms |-> U64Max, max_time_ms |-> 0, attempt_count |-> 0]

\* metrics.rs:75-115   record_attempt, run by the one thread of the loop
record_attempt(mx, time_ms, success) ==
    LET counted ==
            IF success
            THEN [mx EXCEPT !.total_attempts = @ + 1,
                            !.successful_attempts = @ + 1,
                            !.consecutive_failures = 0,
                            !.last_success_time = "Some"]
            ELSE [mx EXCEPT !.total_attempts = @ + 1,
                            !.failed_attempts = @ + 1,
                            !.consecutive_failures = @ + 1]
    IN  [counted EXCEPT
            !.total_time_ms = @ + time_ms,
            !.attempt_count = @ + 1,
            !.min_time_ms = IF @.is_u64_max \/ time_ms < @.ms
                            THEN U64Ms(time_ms) ELSE @,
            !.max_time_ms = IF time_ms > @ THEN time_ms ELSE @]

\* A plausible slip: the error is counted twice.
record_error_twice(mx, error_type) ==
    CASE error_type = "Gpu" -> [mx EXCEPT !.gpu_errors = @ + 2]
      [] error_type = "Network" -> [mx EXCEPT !.network_errors = @ + 2]
      [] error_type = "Signature" -> [mx EXCEPT !.signature_errors = @ + 2]
      [] error_type = "Validation" -> [mx EXCEPT !.validation_errors = @ + 2]

\* metrics.rs:117-124   record_error
record_error(mx, error_type) ==
    CASE error_type = "Gpu" -> [mx EXCEPT !.gpu_errors = @ + 1]
      [] error_type = "Network" -> [mx EXCEPT !.network_errors = @ + 1]
      [] error_type = "Signature" -> [mx EXCEPT !.signature_errors = @ + 1]
      [] error_type = "Validation" -> [mx EXCEPT !.validation_errors = @ + 1]

\* A plausible slip: a signing failure is also counted as a failed attempt.
handle_signature_error_as_attempt(mx) ==
    record_error(record_attempt(mx, 0, FALSE), "Signature")

\* error_handling.rs:173-186
handle_gpu_error(mx) == record_error(mx, "Gpu")
handle_network_error(mx) == record_error(mx, "Network")
handle_signature_error(mx) == record_error(mx, "Signature")

\* prometheus_metrics.rs:32, 152-162   the three counters of record_attempt
\* (the duration histogram is not read by the loop)
PrometheusMetricsNew ==
    [total_attempts |-> 0, successful_attempts |-> 0, failed_attempts |-> 0]

PrometheusRecordAttempt(pm, success) ==
    IF success
    THEN [pm EXCEPT !.total_attempts = @ + 1, !.successful_attempts = @ + 1]
    ELSE [pm EXCEPT !.total_attempts = @ + 1, !.failed_attempts = @ + 1]

\* main.rs:221   the hex text of the work root run_attempt returned for a
\* nonce: prev_hash and sizes are fixed, so the nonce names it
LoopWorkRootHex(n) == <<"w">> \o JsonNumberU32(n)

\* A plausible slip: the receipt is built with a placeholder signature.
WorkReceiptPlaceholder(n, out) ==
    [device_did |-> device_did, epoch_id |-> epoch_id,
     prev_hash_hex |-> prev_hash_hex, nonce |-> n,
     work_root_hex |-> out.work_root_hex, sizes |-> LoopSizes,
     time_ms |-> out.elapsed_ms,
     kernel_ver |-> <<"g", "e", "m", "m", "_", "v", "1">>,
     driver_hint |-> <<"O", "p", "e", "n", "C", "L">>,
     sig_hex |-> <<"0">>]

\* main.rs:223-234   the receipt as the loop constructs it
WorkReceipt(n, out) ==
    [device_did |-> device_did, epoch_id |-> epoch_id,
     prev_hash_hex |-> prev_hash_hex, nonce |-> n,
     work_root_hex |-> out.work_root_hex, sizes |-> LoopSizes,
     time_ms |-> out.elapsed_ms,
     kernel_ver |-> <<"g", "e", "m", "m", "_", "v", "1">>,
     driver_hint |-> <<"O", "p", "e", "n", "C", "L">>,
     sig_hex |-> <<>>]

\* the times run_attempt reports in the loop, in ms
LoopElapsed == {5, 7}

\* the status codes the aggregator answers with
StatusCodes == {200, 299, 300, 500}

\* main.rs:255   submission_result: Err (no answer), or Ok with a status
SubmissionResults ==
    {[transport |-> "Err", status |-> 0]}
    \cup {[transport |-> "Ok", status |-> code] : code \in StatusCodes}

\* A plausible slip: a redirect status counts as success.
is_success_or_redirect(result) ==
    result.transport = "Ok" /\ 200 <= result.status /\ result.status < 400

\* main.rs:257-262   Ok(resp) with status.is_success(): 200 <= status < 300
is_success(result) ==
    result.transport = "Ok" /\ 200 <= result.status /\ result.status < 300

\* the loop is observed for MaxIters iterations
MaxIters == 3

\* the polls of one call of wait_for_token are counted up to MaxPolls
MaxPolls == 3

\* The counters after 2^32 - 2 iterations of which PriorFailed ended in a
\* failed submission of a 5 ms attempt and the others in a compute or a
\* signing error.
PriorGpuErrors == 2147483639
PriorSignatureErrors == 2147483639
PriorFailed == 16

\* error_handling.rs:221   (elapsed.as_secs_f64() * self.refill_rate) as u32,
\* now_since ms after last_refill: the cast saturates at u32::MAX (a product
\* below 2^31 is computed directly, a larger one limb by limb)
tokens_to_add(l, now_since) ==
    IF now_since = 0 \/ l.refill_rate <= I32_MAX \div now_since
    THEN MagOfNat((now_since * l.refill_rate) \div 1000)
    ELSE LET product == MagMul(MagOfNat(now_since), MagOfNat(l.refill_rate))
             whole == MagDivLimb(product, 1000).q
         IN  IF MagCmp(whole, U32_MAX) > 0 THEN U32_MAX ELSE whole

\* error_handling.rs:223   *tokens + tokens_to_add does not fit a u32: a
\* build with overflow checks panics there, a build without them wraps
try_acquire_overflows(l, now_since) ==
    MagCmp(MagAdd(MagOfNat(l.tokens), tokens_to_add(l, now_since)), U32_MAX) > 0

\* error_handling.rs:216-235   try_acquire, called now_since ms after
\* last_refill: the result and the limiter after the call (the sum of u32
\* values wrapped, as a build without overflow checks computes it)
try_acquire(l, now_since) ==
    LET sum == MagAdd(MagOfNat(l.tokens), tokens_to_add(l, now_since))
        wrapped == IF MagCmp(sum, U32_MAX) > 0
                   THEN MagSub(sum, MagPow2(32)) ELSE sum
        tokens == IF MagCmp(wrapped, MagOfNat(l.max_tokens)) < 0
                  THEN MagToNat(wrapped) ELSE l.max_tokens
    IN  IF tokens > 0
        THEN [ok |-> TRUE, l |-> [l EXCEPT !.tokens = tokens - 1, !.since = 0]]
        ELSE [ok |-> FALSE, l |-> [l EXCEPT !.tokens = tokens, !.since = 0]]

\* error_handling.rs:207-214   RateLimiter::new
RateLimiterNew(max_tokens, refill_rate) ==
    [tokens |-> max_tokens, max_tokens |-> max_tokens,
     refill_rate |-> refill_rate, since |-> 0]

\* main.rs:106   the limiter of the loop: max_concurrent_requests tokens
\* (5 by default, 1 is tried as well) and rate_limit_per_second = 10
LoopLimiters == {RateLimiterNew(mt, 10) : mt \in {1, 5}}

\* the time since the last call of try_acquire, in ms
LoopPollGaps == {10, 100}

LoopFresh ==
    [pc |-> "top", nonce |-> <<>>, iters |-> 0,
     rate_limiter |-> RateLimiterNew(5, 10), granted |-> 0, polls |-> 0,
     metrics |-> MetricsCollectorNew, prom |-> PrometheusMetricsNew,
     out |-> <<>>, receipt |-> <<>>, submission_result |-> <<>>,
     trail |-> <<>>, submitted |-> <<>>]

LoopLate ==
    [LoopFresh EXCEPT
        !.nonce = MagSub(U32_MAX, <<1>>),
        !.metrics = [MetricsCollectorNew EXCEPT
                        !.gpu_errors = PriorGpuErrors,
                        !.signature_errors = PriorSignatureErrors,
                        !.network_errors = PriorFailed,
                        !.total_attempts = PriorFailed,
                        !.failed_attempts = PriorFailed,
                        !.consecutive_failures = PriorFailed,
                        !.attempt_count = PriorFailed,
                        !.total_time_ms = PriorFailed * 5,
                        !.min_time_ms = U64Ms(5),
                        !.max_time_ms = 5],
        !.prom = [total_attempts |-> PriorFailed, successful_attempts |-> 0,
                  failed_attempts |-> PriorFailed]]

\* main.rs:129, 206   the loop is entered with nonce 0; the second state is
\* the loop two iterations before the nonce reaches u32::MAX
LoopInit ==
    \E l \in LoopLimiters :
        loop \in {[LoopFresh EXCEPT !.rate_limiter = l],
                  [LoopLate EXCEPT !.rate_limiter = l]}

\* main.rs:207
LoopTop ==
    /\ loop.pc = "top"
    /\ loop.iters < MaxIters
    /\ loop' = [loop EXCEPT !.pc = "wait", !.nonce = wrapping_add(@, 1),
                            !.iters = @ + 1, !.out = <<>>, !.receipt = <<>>,
                            !.submission_result = <<>>, !.polls = 0]
    /\ UNCHANGED NotLoop

\* A plausible slip: the limiter is asked once and the loop goes on
\* whatever the answer (`if` for `while`).
LoopWaitForTokenOnce ==
    /\ loop.pc = "wait"
    /\ \E d \in LoopPollGaps :
          LET res == try_acquire(loop.rate_limiter, d)
          IN  loop' = [loop EXCEPT
                         !.rate_limiter = res.l,
                         !.polls = Min(@ + 1, MaxPolls),
                         !.granted = IF res.ok THEN @ + 1 ELSE @,
                         !.pc = "attempt"]
    /\ UNCHANGED NotLoop

\* main.rs:210, error_handling.rs:237-241   wait_for_token: one call of
\* try_acquire, d ms after the last one; the call returns when a token is
\* granted and sleeps before the next poll when not
LoopWaitForToken ==
    /\ loop.pc = "wait"
    /\ \E d \in LoopPollGaps :
          LET res == try_acquire(loop.rate_limiter, d)
          IN  loop' = [loop EXCEPT
                         !.rate_limiter = res.l,
                         !.polls = Min(@ + 1, MaxPolls),
                         !.granted = IF res.ok THEN @ + 1 ELSE @,
                         !.pc = IF res.ok THEN "attempt" ELSE @]
    /\ UNCHANGED NotLoop

\* main.rs:213-219   run_attempt returns Ok(out), or Err and the loop
\* continues
LoopAttempt ==
    /\ loop.pc = "attempt"
    /\ LET ran == [nonce |-> loop.nonce, sizes |-> LoopSizes,
                   prev_hash_hex |-> prev_hash_hex, device_did |-> device_did,
                   secp |-> secp]
       IN  \/ \E ms \in LoopElapsed :
                loop' = [loop EXCEPT
                    !.pc = "build",
                    !.out = <<[work_root_hex |-> LoopWorkRootHex(loop.nonce),
                               elapsed_ms |-> ms]>>,
                    !.trail = Append(@, [ran |-> ran, result |-> "computed"])]
           \/ loop' = [loop EXCEPT
                    !.pc = "top",
                    !.metrics = handle_gpu_error(@),
                    !.trail = Append(@, [ran |-> ran,
                                         result |-> "compute error"])]
    /\ UNCHANGED NotLoop

\* main.rs:221-239
LoopBuild ==
    /\ loop.pc = "build"
    /\ loop' = [loop EXCEPT !.pc = "sign",
                            !.receipt = <<WorkReceipt(loop.nonce, loop.out[1])>>]
    /\ UNCHANGED NotLoop

\* the last entry of the trail gets the result of its iteration
TrailResult(trail, result) ==
    [trail EXCEPT ![Len(trail)].result = result]

\* main.rs:242-249   sign_receipt returns Ok(sig) and sig_hex is assigned,
\* or Err and the loop continues
LoopSign ==
    /\ loop.pc = "sign"
    /\ \/ loop' = [loop EXCEPT
                    !.pc = "submit",
                    !.receipt = <<[loop.receipt[1] EXCEPT
                          !.sig_hex = sign_receipt(secp, loop.receipt[1])]>>,
                    !.trail = TrailResult(@, "signed")]
       \/ loop' = [loop EXCEPT
                    !.pc = "top",
                    !.metrics = handle_signature_error(@),
                    !.trail = TrailResult(@, "signing error")]
    /\ UNCHANGED NotLoop

\* A plausible slip: the receipt is handed to a task of its own and the
\* loop goes on without its answer.
LoopSubmitDetached ==
    /\ loop.pc = "submit"
    /\ loop' = [loop EXCEPT !.pc = "sleep",
                            !.submitted = Append(@, loop.receipt[1])]
    /\ UNCHANGED NotLoop

\* main.rs:252-255   the receipt is posted
LoopSubmit ==
    /\ loop.pc = "submit"
    /\ loop' = [loop EXCEPT !.pc = "response",
                            !.submitted = Append(@, loop.receipt[1])]
    /\ UNCHANGED NotLoop

\* A plausible slip: a failed submission ends the loop.
after_submission_return(l, result) ==
    IF is_success(result)
    THEN [l EXCEPT !.pc = "sleep",
                   !.submission_result = <<result>>,
                   !.metrics = record_attempt(@, l.out[1].elapsed_ms, TRUE),
                   !.prom = PrometheusRecordAttempt(@, TRUE),
                   !.trail = TrailResult(@, "submitted")]
    ELSE [l EXCEPT !.pc = "returned",
                   !.submission_result = <<result>>,
                   !.metrics = handle_network_error(
                                 record_attempt(@, l.out[1].elapsed_ms, FALSE)),
                   !.prom = PrometheusRecordAttempt(@, FALSE),
                   !.trail = TrailResult(@, "submission failed")]

\* main.rs:257-283   the match on submission_result
after_submission(l, result) ==
    IF is_success(result)
    THEN [l EXCEPT !.pc = "sleep",
                   !.submission_result = <<result>>,
                   !.metrics = record_attempt(@, l.out[1].elapsed_ms, TRUE),
                   !.prom = PrometheusRecordAttempt(@, TRUE),
                   !.trail = TrailResult(@, "submitted")]
    ELSE [l EXCEPT !.pc = "sleep",
                   !.submission_result = <<result>>,
                   !.metrics = handle_network_error(
                                 record_attempt(@, l.out[1].elapsed_ms, FALSE)),
                   !.prom = PrometheusRecordAttempt(@, FALSE),
                   !.trail = TrailResult(@, "submission failed")]

\* main.rs:255-283   the answer of the aggregator arrives
LoopResponse ==
    /\ loop.pc = "response"
    /\ \E result \in SubmissionResults : loop' = after_submission(loop, result)
    /\ UNCHANGED NotLoop

\* main.rs:285-301   the status line reads the metrics; the sleep ends
LoopSleep ==
    /\ loop.pc = "sleep"
    /\ loop' = [loop EXCEPT !.pc = "top"]
    /\ UNCHANGED NotLoop

LoopNext ==
    \/ LoopTop
    \/ LoopWaitForToken
    \/ LoopAttempt
    \/ LoopBuild
    \/ LoopSign
    \/ LoopSubmit
    \/ LoopResponse
    \/ LoopSleep

InitLoop == LoopInit /\ RestIdle({"loop"})

SpecLoop == InitLoop /\ [][LoopNext]_vars

\* C14: a receipt is constructed with an empty sig_hex; the only change it
\* ever sees is one assignment of sig_hex, from empty to what sign_receipt
\* returns for that receipt; every receipt that is posted carries the
\* non-empty signature of its own fields.
C14_ReceiptLifecycle ==
    /\ [](loop.pc = "sign" => loop.receipt[1].sig_hex = <<>>)
    /\ [][(loop.pc \in {"sign", "submit", "response", "sleep"}
            /\ loop'.pc \in {"sign", "submit", "response", "sleep"}
            /\ loop'.receipt # loop.receipt)
          => /\ loop.receipt[1].sig_hex = <<>>
             /\ loop'.receipt[1].sig_hex # <<>>
             /\ loop'.receipt
                  = <<[loop.receipt[1] EXCEPT
                         !.sig_hex = sign_receipt(secp, loop.receipt[1])]>>]_vars
    /\ [](\A i \in 1 .. Len(loop.submitted) :
            /\ loop.submitted[i].sig_hex # <<>>
            /\ loop.submitted[i].sig_hex
                 = sign_receipt(secp, loop.submitted[i]))
    /\ [][(loop.pc = "submit" /\ loop'.pc = "response")
          => loop'.submitted = Append(loop.submitted, loop.receipt[1])]_vars

\* a signed receipt has been posted and the loop waits for the answer
C14_Witness ==
    /\ loop.pc = "response"
    /\ Len(loop.submitted) > 0
    /\ loop.submitted[Len(loop.submitted)] = loop.receipt[1]
    /\ loop.receipt[1].sig_hex # <<>>

\* C15: the nonces of the receipts the loop produces are strictly
\* increasing, however long the loop runs.
C15_NoncesStrictlyIncreasing ==
    \A i \in 1 .. Len(loop.submitted), j \in 1 .. Len(loop.submitted) :
        i < j => MagCmp(loop.submitted[i].nonce, loop.submitted[j].nonce) < 0

\* C16: after a submission fails for nonce n the loop goes on: the failure
\* is recorded, the loop reaches its sleep with the nonce unchanged, and the
\* attempt that runs next is the one for nonce n + 1 (as the u32 increment
\* of the loop computes it) with the same sizes, prev_hash, device DID and
\* signing key.
C16_LoopContinuesAfterFailedSubmission ==
    /\ [][(loop.pc = "response" /\ loop'.pc # "response")
          => /\ loop'.pc = "sleep"
             /\ loop'.nonce = loop.nonce]_vars
    /\ [](\A i \in 1 .. Len(loop.trail) :
            (loop.trail[i].result = "submission failed" /\ i < Len(loop.trail))
            => loop.trail[i + 1].ran
                 = [loop.trail[i].ran EXCEPT !.nonce = wrapping_add(@, 1)])
    /\ [](loop.pc \in {"top", "wait", "attempt", "build", "sign", "submit",
                       "response", "sleep"})

\* a submission failed and the attempt for the next nonce has been run
C16_Witness ==
    /\ Len(loop.trail) >= 2
    /\ loop.trail[Len(loop.trail) - 1].result = "submission failed"
    /\ loop.trail[Len(loop.trail)].ran.nonce
         = wrapping_add(loop.trail[Len(loop.trail) - 1].ran.nonce, 1)
    /\ loop.trail[Len(loop.trail)].result = "computed"

\* the entries of the trail with a given result
TrailCount(trail, result) ==
    Cardinality({i \in 1 .. Len(trail) : trail[i].result = result})

\* C17: when run_attempt fails for nonce n the gpu error counter goes up by
\* one and nothing else of the metrics changes, no receipt is built or
\* posted, and the loop is back at its top; when sign_receipt fails the
\* signature error counter goes up by one and the receipt is not posted.
\* Over the whole run each counter has grown by the number of such failures,
\* no receipt was posted for a failed nonce, and the attempt that runs after
\* a failure is the one for nonce n + 1 (the u32 increment of the loop).
C17_FailedAttemptIsSkipped ==
    /\ [][(loop.pc = "attempt" /\ loop'.pc = "top")
          => /\ loop'.metrics = [loop.metrics EXCEPT !.gpu_errors = @ + 1]
             /\ loop'.prom = loop.prom
             /\ loop'.receipt = <<>> /\ loop.receipt = <<>>
             /\ loop'.submitted = loop.submitted
             /\ loop'.nonce = loop.nonce]_vars
    /\ [][(loop.pc = "sign" /\ loop'.pc = "top")
          => /\ loop'.metrics = [loop.metrics EXCEPT !.signature_errors = @ + 1]
             /\ loop'.prom = loop.prom
             /\ loop'.submitted = loop.submitted
             /\ loop'.nonce = loop.nonce]_vars
    /\ [](/\ loop.metrics.gpu_errors - TrailCount(loop.trail, "compute error")
               \in {0, PriorGpuErrors}
          /\ loop.metrics.signature_errors
               - TrailCount(loop.trail, "signing error")
               \in {0, PriorSignatureErrors})
    /\ [](\A i \in 1 .. Len(loop.trail) :
            loop.trail[i].result \in {"compute error", "signing error"}
            => /\ \A j \in 1 .. Len(loop.submitted) :
                     loop.submitted[j].nonce # loop.trail[i].ran.nonce
               /\ i < Len(loop.trail)
                  => loop.trail[i + 1].ran.nonce
                       = wrapping_add(loop.trail[i].ran.nonce, 1))

\* a compute failure and a signing failure, each followed by the attempt
\* for the next nonce
C17_Witness ==
    /\ Len(loop.trail) = 3
    /\ loop.trail[1].result = "compute error"
    /\ loop.trail[2].result = "signing error"
    /\ loop.trail[3].ran.nonce = wrapping_add(loop.trail[2].ran.nonce, 1)
    /\ loop.metrics.gpu_errors = 1 /\ loop.metrics.signature_errors = 1
    /\ loop.submitted = <<>>

\* C33: every run of run_attempt comes after a token was granted in its
\* own iteration, whatever ended the iteration before: when the attempt is
\* about to run or has run, the tokens granted equal the iterations begun,
\* and the attempts started never exceed the tokens granted.
C33_TokenBeforeAttempt ==
    loop.pc # "idle" =>
        /\ Len(loop.trail) <= loop.granted
        /\ loop.granted <= loop.iters
        /\ loop.pc = "wait" => loop.granted = loop.iters - 1
        /\ loop.pc \in {"attempt", "build", "sign", "submit", "response", "sleep"}
              => loop.granted = loop.iters /\ loop.polls >= 1
        /\ loop.pc \in {"build", "sign", "submit", "response", "sleep"}
              => Len(loop.trail) = loop.iters

\* C33 witness: the first iteration took the only token and its attempt
\* failed; in the second iteration the first poll was refused, the second
\* was granted, and the attempt is about to run.
C33_Witness ==
    /\ loop.pc = "attempt"
    /\ loop.iters = 2
    /\ loop.rate_limiter.max_tokens = 1
    /\ Len(loop.trail) = 1
    /\ loop.trail[1].result = "compute error"
    /\ loop.polls = 2
    /\ loop.granted = 2

\* the results with which an iteration is over
Finished == {"compute error", "signing error", "submitted", "submission failed"}

\* the submissions that have been answered (or have failed in transport)
Answered ==
    Cardinality({i \in 1 .. Len(loop.trail) :
                    loop.trail[i].result \in {"submitted", "submission failed"}})

\* the position in the trail of the attempt that produced a receipt
TrailIndex(receipt) ==
    CHOOSE i \in 1 .. Len(loop.trail) : loop.trail[i].ran.nonce = receipt.nonce

\* C34: an attempt starts only when the iteration before it is over, its
\* submission answered if it came to one; at most one submission is
\* unanswered, and only while the loop awaits it; the receipts are sent in
\* the order in which the loop produced their nonces.
C34_OneAtATime ==
    loop.pc # "idle" =>
        /\ \A i \in 1 .. Len(loop.trail) - 1 : loop.trail[i].result \in Finished
        /\ loop.pc \in {"top", "wait", "attempt"} =>
              \A i \in 1 .. Len(loop.trail) : loop.trail[i].result \in Finished
        /\ Len(loop.submitted) - Answered = IF loop.pc = "response" THEN 1 ELSE 0
        /\ \A i, j \in 1 .. Len(loop.submitted) :
              i < j => TrailIndex(loop.submitted[i]) < TrailIndex(loop.submitted[j])

\* C34 witness: the second receipt is posted and unanswered; the first was
\* answered before the second attempt started.
C34_Witness ==
    /\ loop.pc = "response"
    /\ Len(loop.trail) = 2
    /\ loop.trail[1].result = "submission failed"
    /\ loop.trail[2].result = "signed"
    /\ Len(loop.submitted) = 2
    /\ Answered = 1

(***************************************************************************)
(* The token bucket (error_handling.rs:199-242).  Time is in milliseconds; *)
(* the limiter keeps the time since last_refill (since), and, where a      *)
(* bound over an interval is checked, the clock since construction and the *)
(* clock values at which try_acquire returned true (grants).  The refill   *)
(* rate is a whole number of tokens per second, as main passes it          *)
(* (main.rs:106).                                                          *)
(***************************************************************************)
\* config.rs: max_concurrent_requests (default 5) and rate_limit_per_second
\* (default 10), and smaller and larger values
MaxTokensValues == {1, 2, 5}
RefillRates == {1, 10, 100, 200}

\* the clock is observed up to MaxClock ms and for MaxCalls calls
MaxClock == 150
MaxCalls == 5
ClockSteps == {10, 100}

RateInit ==
    \E mt \in MaxTokensValues, r \in RefillRates :
        rl = [pc |-> "run", limiter |-> RateLimiterNew(mt, r),
              clock |-> 0, calls |-> 0, grants |-> <<>>]

\* time passes
RateTick ==
    /\ rl.pc = "run"
    /\ \E d \in ClockSteps :
        /\ rl.clock + d <= MaxClock
        /\ rl' = [rl EXCEPT !.clock = @ + d, !.limiter.since = @ + d]
    /\ UNCHANGED NotRl

\* error_handling.rs:216-235   one call of try_acquire
RateTryAcquire ==
    /\ rl.pc = "run"
    /\ rl.calls < MaxCalls
    /\ LET res == try_acquire(rl.limiter, rl.limiter.since)
       IN  rl' = [rl EXCEPT !.limiter = res.l, !.calls = @ + 1,
                            !.grants = IF res.ok THEN Append(@, rl.clock) ELSE @]
    /\ UNCHANGED NotRl

RateNext == RateTick \/ RateTryAcquire

InitRate == RateInit /\ RestIdle({"rl"})

SpecRate == InitRate /\ [][RateNext]_vars

\* ceil(a / b) for a >= 0, b > 0
CeilDiv(a, b) == (a + b - 1) \div b

\* the calls that returned true in the first T ms after construction
GrantsWithin(T) ==
    Cardinality({i \in 1 .. Len(rl.grants) : rl.grants[i] <= T})

\* C18: over every interval that starts at the construction of the limiter
\* and lasts T > 0, at most ceil(T * refill_rate) calls of try_acquire have
\* returned true.
C18_GrantsWithinRate ==
    rl.pc = "run" =>
        \A T \in 1 .. rl.clock :
            GrantsWithin(T) <= CeilDiv(T * rl.limiter.refill_rate, 1000)

(***************************************************************************)
(* wait_for_token (error_handling.rs:237-241): a caller polls try_acquire  *)
(* and sleeps between two polls.  std::thread::sleep returns after at      *)
(* least the 10 ms asked for; the thread is scheduled again, which is the  *)
(* fairness of SpecWait.  Between two calls of wait_for_token the caller   *)
(* does other work for some time.                                          *)
(***************************************************************************)
\* error_handling.rs:239   how long a sleep of 10 ms takes, in ms
SleepMs == {10, 11, 100}

\* main.rs:213-301   the time between a return of wait_for_token and the
\* next call, in ms
CallGaps == {0, 10, 60, 1000}

WaitInit ==
    \E mt \in MaxTokensValues, r \in RefillRates :
        rl = [pc |-> "call", limiter |-> RateLimiterNew(mt, r), polls |-> 0]

\* error_handling.rs:237   wait_for_token is called
WaitCall ==
    /\ rl.pc = "call"
    /\ \E gap \in CallGaps :
        rl' = [rl EXCEPT !.pc = "try", !.limiter.since = @ + gap, !.polls = 0]
    /\ UNCHANGED NotRl

\* error_handling.rs:238   the loop condition: one call of try_acquire
WaitTry ==
    /\ rl.pc = "try"
    /\ LET res == try_acquire(rl.limiter, rl.limiter.since)
       IN  rl' = [rl EXCEPT !.limiter = res.l,
                            !.pc = IF res.ok THEN "returned" ELSE "sleep",
                            !.polls = Min(@ + 1, MaxPolls)]
    /\ UNCHANGED NotRl

\* error_handling.rs:239   the sleep ends
WaitSleep ==
    /\ rl.pc = "sleep"
    /\ \E d \in SleepMs :
        rl' = [rl EXCEPT !.pc = "try", !.limiter.since = @ + d]
    /\ UNCHANGED NotRl

\* error_handling.rs:241   wait_for_token returns to its caller
WaitReturn ==
    /\ rl.pc = "returned"
    /\ rl' = [rl EXCEPT !.pc = "call"]
    /\ UNCHANGED NotRl

WaitNext == WaitCall \/ WaitTry \/ WaitSleep \/ WaitReturn

InitWait == WaitInit /\ RestIdle({"rl"})

SpecWait ==
    /\ InitWait
    /\ [][WaitNext]_vars
    /\ WF_vars(WaitTry)
    /\ WF_vars(WaitSleep)

\* C19: every call of wait_for_token returns: a caller that polls is
\* eventually given a token.
C19_WaitForTokenReturns == (rl.pc = "try") ~> (rl.pc = "returned")

(***************************************************************************)
(* The token count of the bucket over calls of try_acquire at any times    *)
(* and for any rate that main can pass (error_handling.rs:207-235): last   *)
(* holds, for the last call, the count before it, the time since the call  *)
(* before, and what the call did.                                          *)
(***************************************************************************)
\* config.rs: rate_limit_per_second is a u32 of the environment
BucketRates == {10, 2147483647}

\* the time between two calls, in ms
BucketGaps == {0, 100, 3000}

\* the calls of try_acquire that are observed
MaxBucketCalls == 4

BucketInit ==
    \E mt \in MaxTokensValues, r \in BucketRates :
        rl = [pc |-> "run", limiter |-> RateLimiterNew(mt, r), calls |-> 0,
              last |-> <<>>]

\* error_handling.rs:216-235   one call of try_acquire; where the sum
\* overflows, the call panics or goes on with the wrapped sum
BucketTryAcquire ==
    /\ rl.pc = "run"
    /\ rl.calls < MaxBucketCalls
    /\ \E d \in BucketGaps :
          LET res == try_acquire(rl.limiter, d)
              call == [before |-> rl.limiter.tokens, gap |-> d]
          IN  \/ /\ try_acquire_overflows(rl.limiter, d)
                 /\ rl' = [rl EXCEPT
                             !.pc = "panicked", !.calls = @ + 1,
                             !.last = <<[before |-> call.before, gap |-> d,
                                         outcome |-> "panic"]>>]
              \/ rl' = [rl EXCEPT
                          !.limiter = res.l, !.calls = @ + 1,
                          !.last = <<[before |-> call.before, gap |-> d,
                                      outcome |-> IF res.ok THEN "true"
                                                  ELSE "false"]>>]
    /\ UNCHANGED NotRl

BucketNext == BucketTryAcquire

InitBucket == BucketInit /\ RestIdle({"rl"})

SpecBucket == InitBucket /\ [][BucketNext]_vars

\* min(before + floor(gap * refill_rate / 1000), max_tokens), in whole
\* numbers of any size
RefilledCount(before, gap) ==
    LET exact == MagAdd(MagOfNat(before),
                        MagDivLimb(MagMul(MagOfNat(gap),
                                          MagOfNat(rl.limiter.refill_rate)),
                                   1000).q)
    IN  IF MagCmp(exact, MagOfNat(rl.limiter.max_tokens)) < 0
        THEN MagToNat(exact) ELSE rl.limiter.max_tokens

\* C38: the stored token count is between 0 and max_tokens; every call of
\* try_acquire returns, and a call that returned true left the refilled
\* count less 1, a call that returned false left the count 0.
C38_BucketInvariant ==
    rl.pc # "idle" =>
        /\ 0 <= rl.limiter.tokens /\ rl.limiter.tokens <= rl.limiter.max_tokens
        /\ rl.last # <<>> =>
              LET refilled == RefilledCount(rl.last[1].before, rl.last[1].gap)
              IN  /\ rl.last[1].outcome # "panic"
                  /\ rl.last[1].outcome = "true"
                        => rl.limiter.tokens = refilled - 1
                  /\ rl.last[1].outcome = "false" => rl.limiter.tokens = 0

(***************************************************************************)
(* The circuit breaker (error_handling.rs:24-86).  Its state is held under *)
(* a mutex, so each call is one step.  An Open state keeps the seconds     *)
(* since opened_at, counted up to recovery_timeout (all that the code      *)
(* compares it with).  streak counts, up to MaxStreak, the calls of        *)
(* record_failure since construction or the last record_success;           *)
(* last_can_execute is what can_execute last returned.                     *)
(***************************************************************************)
Closed(failure_count) ==
    [tag |-> "Closed", failure_count |-> failure_count, elapsed |-> 0]
Open(elapsed) == [tag |-> "Open", failure_count |-> 0, elapsed |-> elapsed]
HalfOpen == [tag |-> "HalfOpen", failure_count |-> 0, elapsed |-> 0]

\* error_handling.rs:39-45   CircuitBreaker::new
CircuitBreakerNew(failure_threshold, recovery_timeout) ==
    [failure_threshold |-> failure_threshold,
     recovery_timeout |-> recovery_timeout, state |-> Closed(0)]

\* error_handling.rs:47-59   can_execute
can_execute(b) ==
    CASE b.state.tag = "Closed" -> TRUE
      [] b.state.tag = "Open" -> b.state.elapsed >= b.recovery_timeout
      [] b.state.tag = "HalfOpen" -> TRUE

\* A plausible slip: a success closes only a half-open breaker.
record_success_half_open(b) ==
    IF b.state.tag = "HalfOpen" THEN [b EXCEPT !.state = Closed(0)] ELSE b

\* error_handling.rs:61-65   record_success
record_success(b) == [b EXCEPT !.state = Closed(0)]

\* A plausible slip: the breaker opens one failure late (> for >=).
record_failure_late(b) ==
    CASE b.state.tag = "Closed" ->
            LET failure_count == b.state.failure_count + 1
            IN  IF failure_count > b.failure_threshold
                THEN [b EXCEPT !.state = Open(0)]
                ELSE [b EXCEPT !.state = Closed(failure_count)]
      [] b.state.tag = "Open" ->
            IF b.state.elapsed >= b.recovery_timeout
            THEN [b EXCEPT !.state = HalfOpen]
            ELSE b
      [] b.state.tag = "HalfOpen" -> [b EXCEPT !.state = Open(0)]

\* error_handling.rs:67-86   record_failure
record_failure(b) ==
    CASE b.state.tag = "Closed" ->
            LET failure_count == b.state.failure_count + 1
            IN  IF failure_count >= b.failure_threshold
                THEN [b EXCEPT !.state = Open(0)]
                ELSE [b EXCEPT !.state = Closed(failure_count)]
      [] b.state.tag = "Open" ->
            IF b.state.elapsed >= b.recovery_timeout
            THEN [b EXCEPT !.state = HalfOpen]
            ELSE b
      [] b.state.tag = "HalfOpen" -> [b EXCEPT !.state = Open(0)]

\* error_handling.rs:116   main builds the breaker with (5, 60 s); smaller
\* positive thresholds and a shorter timeout are tried as well
FailureThresholds == {1, 2, 3, 5}
RecoveryTimeouts == {1, 60}
BreakerSteps == {1, 30}

\* consecutive failures are counted up to MaxStreak
MaxStreak == 7

BreakerInit ==
    \E t \in FailureThresholds, r \in RecoveryTimeouts :
        cb = [pc |-> "run", breaker |-> CircuitBreakerNew(t, r),
              streak |-> 0, last_can_execute |-> "none"]

\* error_handling.rs:136   a call of can_execute
BreakerCanExecute ==
    /\ cb.pc = "run"
    /\ cb' = [cb EXCEPT !.last_can_execute =
                           IF can_execute(cb.breaker) THEN "true" ELSE "false"]
    /\ UNCHANGED NotCb

\* error_handling.rs:146   a call of record_success
BreakerRecordSuccess ==
    /\ cb.pc = "run"
    /\ cb' = [cb EXCEPT !.breaker = record_success(@), !.streak = 0]
    /\ UNCHANGED NotCb

\* error_handling.rs:169   a call of record_failure
BreakerRecordFailure ==
    /\ cb.pc = "run"
    /\ cb' = [cb EXCEPT !.breaker = record_failure(@),
                        !.streak = Min(@ + 1, MaxStreak)]
    /\ UNCHANGED NotCb

\* error_handling.rs:52, 77   opened_at.elapsed() grows while the breaker
\* is Open
BreakerTick ==
    /\ cb.pc = "run"
    /\ cb.breaker.state.tag = "Open"
    /\ cb.breaker.state.elapsed < cb.breaker.recovery_timeout
    /\ \E d \in BreakerSteps :
        cb' = [cb EXCEPT !.breaker.state.elapsed =
                            Min(@ + d, cb.breaker.recovery_timeout)]
    /\ UNCHANGED NotCb

BreakerNext ==
    \/ BreakerCanExecute
    \/ BreakerRecordSuccess
    \/ BreakerRecordFailure
    \/ BreakerTick

InitBreaker == BreakerInit /\ RestIdle({"cb"})

SpecBreaker == InitBreaker /\ [][BreakerNext]_vars

\* C20: counted from construction or from the last record_success, after
\* fewer than failure_threshold calls of record_failure the breaker is
\* Closed with that failure count and can_execute is true; the call that
\* makes it failure_threshold calls opens it, and it is Open as long as no
\* other call follows; record_success leaves it Closed with failure count 0.
\* The threshold is positive, as in every breaker main builds.
C20_OpensAtThreshold ==
    /\ [](cb.pc = "run" =>
            /\ cb.streak < cb.breaker.failure_threshold
                 => /\ cb.breaker.state = Closed(cb.streak)
                    /\ can_execute(cb.breaker)
            /\ cb.streak = cb.breaker.failure_threshold
                 => cb.breaker.state.tag = "Open")
    /\ [][(cb.pc = "run" /\ cb'.streak = cb.breaker.failure_threshold
             /\ cb.streak < cb'.streak)
          => /\ cb.breaker.state.tag = "Closed"
             /\ cb'.breaker.state = Open(0)]_vars
    /\ [][(cb.pc = "run" /\ cb'.streak = 0)
          => cb'.breaker.state = Closed(0)]_vars

\* the breaker of main (threshold 5) is Open after its fifth consecutive
\* failure; can_execute had returned true while it was Closed
C20_Witness ==
    /\ cb.pc = "run"
    /\ cb.breaker.failure_threshold = 5
    /\ cb.streak = 5
    /\ cb.breaker.state.tag = "Open"
    /\ cb.last_can_execute = "true"

(***************************************************************************)
(* ErrorHandler::execute_with_retry (error_handling.rs:131-171), called    *)
(* several times on one handler.  Durations are in milliseconds and the    *)
(* backoff multiplier is a whole number (main passes 2.0).  The operation  *)
(* is taken by its result.  invoked counts the invocations of the          *)
(* operation in the current call and waits lists its sleeps.               *)
(***************************************************************************)
\* error_handling.rs:52, 77   opened_at.elapsed() after d more ms
BreakerAfter(b, d) ==
    IF b.state.tag = "Open"
    THEN [b EXCEPT !.state.elapsed = Min(@ + d, b.recovery_timeout)]
    ELSE b

\* error_handling.rs:141   let mut delay = self.retry_config.retry_delay
FirstDelay(cfg) == cfg.retry_delay

\* error_handling.rs:160-163   the delay after a sleep
NextDelay(cfg, delay) == Min(delay * cfg.backoff_multiplier, cfg.max_retry_delay)

\* main.rs:98-103 and error_handling.rs:13-22: max_retries and retry_delay
\* come from the environment (defaults 3 and 1000 ms), the cap is 30 s
RetryConfigs ==
    [max_retries : {0, 1, 3}, retry_delay : {1000, 20000, 60000},
     backoff_multiplier : {1, 2}, max_retry_delay : {30000}]

\* error_handling.rs:116, 126   the breaker of the handler: (5, 60 s) by
\* default; smaller thresholds are reached within MaxRetryCalls calls
RetryBreakers == {CircuitBreakerNew(t, 60000) : t \in {1, 2}}

\* the time that passes between two calls, in ms
RetryGaps == {0, 30000, 60000}

\* the calls of execute_with_retry that are observed
MaxRetryCalls == 3

RetryInit ==
    \E cfg \in RetryConfigs, b \in RetryBreakers :
        retry = [pc |-> "ready", retry_config |-> cfg, circuit_breaker |-> b,
                 metrics |-> MetricsCollectorNew, calls |-> 0,
                 attempt |-> 0, delay |-> 0, invoked |-> 0, waits |-> <<>>,
                 outcomes |-> <<>>, last_error |-> 0, returned_error |-> 0,
                 breaker_calls |-> <<>>, result |-> "none"]

\* error_handling.rs:131   execute_with_retry is called, some time after
\* the previous call returned
RetryCall ==
    /\ retry.pc = "ready"
    /\ retry.calls < MaxRetryCalls
    /\ \E gap \in RetryGaps :
        retry' = [retry EXCEPT
                    !.pc = "check", !.calls = @ + 1,
                    !.circuit_breaker = BreakerAfter(@, gap),
                    !.attempt = 0, !.delay = 0, !.invoked = 0,
                    !.waits = <<>>, !.outcomes = <<>>, !.last_error = 0,
                    !.returned_error = 0, !.breaker_calls = <<>>,
                    !.result = "none"]
    /\ UNCHANGED NotRetry

\* error_handling.rs:136-141   the breaker is asked; the call is refused or
\* the loop is entered
RetryCheck ==
    /\ retry.pc = "check"
    /\ IF ~can_execute(retry.circuit_breaker)
       THEN retry' = [retry EXCEPT !.pc = "returned", !.result = "refused"]
       ELSE retry' = [retry EXCEPT !.pc = "operation",
                                   !.delay = FirstDelay(retry.retry_config)]
    /\ UNCHANGED NotRetry

\* error_handling.rs:143-156   one invocation of the operation and the
\* match on its result; the error of the n-th invocation is named n
RetryOperation ==
    /\ retry.pc = "operation"
    /\ \/ retry' = [retry EXCEPT
                      !.pc = "returned", !.result = "ok",
                      !.invoked = @ + 1,
                      !.outcomes = Append(@, "Ok"),
                      !.circuit_breaker = record_success(@),
                      !.breaker_calls = Append(@, "record_success")]
       \/ /\ retry.attempt < retry.retry_config.max_retries
          /\ retry' = [retry EXCEPT
                         !.pc = "sleep", !.invoked = @ + 1,
                         !.outcomes = Append(@, "Err"),
                         !.last_error = retry.invoked + 1,
                         !.metrics = record_error(@, "Network")]
       \/ /\ retry.attempt >= retry.retry_config.max_retries
          /\ retry' = [retry EXCEPT !.pc = "failed", !.invoked = @ + 1,
                                    !.outcomes = Append(@, "Err"),
                                    !.last_error = retry.invoked + 1]
    /\ UNCHANGED NotRetry

\* error_handling.rs:157-163   the sleep ends and the delay is updated
RetrySleep ==
    /\ retry.pc = "sleep"
    /\ retry' = [retry EXCEPT
                   !.pc = "operation",
                   !.waits = Append(@, retry.delay),
                   !.circuit_breaker = BreakerAfter(@, retry.delay),
                   !.delay = NextDelay(retry.retry_config, @),
                   !.attempt = @ + 1]
    /\ UNCHANGED NotRetry

\* error_handling.rs:169-170   every invocation failed
RetryFailed ==
    /\ retry.pc = "failed"
    /\ retry' = [retry EXCEPT !.pc = "returned", !.result = "error",
                              !.returned_error = retry.last_error,
                              !.circuit_breaker = record_failure(@),
                              !.breaker_calls = Append(@, "record_failure")]
    /\ UNCHANGED NotRetry

\* execute_with_retry has returned to its caller
RetryReturn ==
    /\ retry.pc = "returned"
    /\ retry' = [retry EXCEPT !.pc = "ready"]
    /\ UNCHANGED NotRetry

RetryNext ==
    \/ RetryCall
    \/ RetryCheck
    \/ RetryOperation
    \/ RetrySleep
    \/ RetryFailed
    \/ RetryReturn

InitRetry == RetryInit /\ RestIdle({"retry"})

SpecRetry == InitRetry /\ [][RetryNext]_vars

\* the breaker is Open and recovery_timeout has not elapsed since it opened
OpenAndWaiting(b) ==
    b.state.tag = "Open" /\ b.state.elapsed < b.recovery_timeout

\* C21: while the breaker is Open and recovery_timeout has not elapsed,
\* can_execute is false and execute_with_retry returns an error without
\* invoking the operation, recording a metric or changing the breaker; once
\* recovery_timeout has elapsed the breaker is half-open and can_execute is
\* true.
C21_OpenRefusesUntilRecovery ==
    /\ [](retry.pc # "idle" /\ OpenAndWaiting(retry.circuit_breaker)
            => ~can_execute(retry.circuit_breaker))
    /\ [][(retry.pc = "check" /\ OpenAndWaiting(retry.circuit_breaker))
          => /\ retry'.pc = "returned" /\ retry'.result = "refused"
             /\ retry'.invoked = 0
             /\ retry'.metrics = retry.metrics
             /\ retry'.circuit_breaker = retry.circuit_breaker]_vars
    /\ [](retry.pc # "idle"
            /\ retry.circuit_breaker.state.tag \in {"Open", "HalfOpen"}
            /\ ~OpenAndWaiting(retry.circuit_breaker)
            => /\ retry.circuit_breaker.state.tag = "HalfOpen"
               /\ can_execute(retry.circuit_breaker))

\* the power, for a whole exponent
RECURSIVE Pow(_, _)
Pow(b, e) == IF e = 0 THEN 1 ELSE b * Pow(b, e - 1)

\* C22: the wait before the i-th retry is
\* min(retry_delay * backoff_multiplier^(i-1), max_retry_delay); no wait is
\* longer than max_retry_delay and the waits never decrease.
C22_CappedBackoff ==
    retry.pc # "idle" =>
        \A i \in 1 .. Len(retry.waits) :
            /\ retry.waits[i]
                 = Min(retry.retry_config.retry_delay
                         * Pow(retry.retry_config.backoff_multiplier, i - 1),
                       retry.retry_config.max_retry_delay)
            /\ retry.waits[i] <= retry.retry_config.max_retry_delay
            /\ i > 1 => retry.waits[i - 1] <= retry.waits[i]

\* C32: a call that the breaker admits invokes the operation at most
\* max_retries + 1 times; it returns at the first Ok, having called
\* record_success once, which leaves the breaker Closed with count 0; when
\* all max_retries + 1 invocations fail it returns the error of the last
\* one and has called record_failure once and record_success never.
C32_BoundedInvocations ==
    retry.pc # "idle" =>
        /\ retry.invoked = Len(retry.outcomes)
        /\ retry.invoked <= retry.retry_config.max_retries + 1
        /\ \A i \in 1 .. Len(retry.outcomes) - 1 : retry.outcomes[i] = "Err"
        /\ (retry.pc = "returned" /\ retry.result = "ok") =>
              /\ retry.outcomes[Len(retry.outcomes)] = "Ok"
              /\ retry.breaker_calls = <<"record_success">>
              /\ retry.circuit_breaker.state = Closed(0)
        /\ (retry.pc = "returned" /\ retry.result = "error") =>
              /\ retry.invoked = retry.retry_config.max_retries + 1
              /\ retry.outcomes[Len(retry.outcomes)] = "Err"
              /\ retry.returned_error = retry.invoked
              /\ retry.breaker_calls = <<"record_failure">>
        /\ (retry.pc = "returned" /\ retry.result = "refused") =>
              retry.invoked = 0 /\ retry.breaker_calls = <<>>
        /\ retry.pc \notin {"returned", "ready"} => retry.breaker_calls = <<>>

\* C32 witness: with max_retries = 3 the fourth invocation has failed like
\* the three before it, and the call has returned its error after one
\* record_failure, which opened the breaker of threshold 1.
C32_Witness ==
    /\ retry.pc = "returned"
    /\ retry.result = "error"
    /\ retry.retry_config.max_retries = 3
    /\ retry.outcomes = <<"Err", "Err", "Err", "Err">>
    /\ retry.returned_error = 4
    /\ Len(retry.waits) = 3
    /\ retry.breaker_calls = <<"record_failure">>
    /\ retry.circuit_breaker.state.tag = "Open"

\* config.rs:70   max_retries, as main passes it to the error handler when
\* the environment does not set it
max_retries == 3

\* how often the receipt of the current iteration has been posted
PostsOfReceipt ==
    Cardinality({j \in 1 .. Len(loop.submitted) :
                    loop.submitted[j] = loop.receipt[1]})

\* C23: a receipt whose POST fails is posted again, up to max_retries more
\* times, before the loop moves on.
C23_SubmissionRetried ==
    (/\ loop.pc = "sleep"
     /\ ~is_success(loop.submission_result[1]))
        => PostsOfReceipt = max_retries + 1

\* C30: the step that handles the answer of the aggregator counts one
\* attempt, as successful exactly when the answer is a status from 200 to
\* 299; any other status and a transport error count a failed attempt and
\* one network error.  No other step of the loop changes the attempt
\* counters or the network error counter.
C30_OneAttemptPerSubmission ==
    /\ [][(loop.pc = "response" /\ loop'.pc # "response")
          => LET answer == loop'.submission_result[1]
                 ok == /\ answer.transport = "Ok"
                       /\ answer.status \in 200 .. 299
                 before == loop.metrics
                 after == loop'.metrics
             IN  /\ after.total_attempts = before.total_attempts + 1
                 /\ after.attempt_count = before.attempt_count + 1
                 /\ ok => /\ after.successful_attempts
                               = before.successful_attempts + 1
                          /\ after.failed_attempts = before.failed_attempts
                          /\ after.network_errors = before.network_errors
                 /\ ~ok => /\ after.successful_attempts
                                = before.successful_attempts
                           /\ after.failed_attempts
                                = before.failed_attempts + 1
                           /\ after.network_errors
                                = before.network_errors + 1]_vars
    /\ [][(loop.pc \in {"top", "wait", "attempt", "build", "sign", "submit",
                        "sleep"})
          => /\ loop'.metrics.total_attempts = loop.metrics.total_attempts
             /\ loop'.metrics.successful_attempts
                  = loop.metrics.successful_attempts
             /\ loop'.metrics.failed_attempts = loop.metrics.failed_attempts
             /\ loop'.metrics.network_errors
                  = loop.metrics.network_errors]_vars

\* the first submission failed and the aggregator answered 200 to the second:
\* two attempts are counted, one of them failed, with one network error
C30_Witness ==
    /\ loop.pc = "sleep"
    /\ Len(loop.submitted) = 2
    /\ loop.trail[1].result = "submission failed"
    /\ loop.submission_result = <<[transport |-> "Ok", status |-> 200]>>
    /\ loop.metrics.total_attempts = 2
    /\ loop.metrics.successful_attempts = 1
    /\ loop.metrics.failed_attempts = 1
    /\ loop.metrics.network_errors = 1

(***************************************************************************)
(* autotune_sizes (main.rs:52-75).  The candidates are those that          *)
(* candidate_sizes returns (never an empty list), the target is what       *)
(* parse_target_ms returns, run_attempt is taken by its result.  Times are *)
(* u64 values held as magnitudes, since best_score starts at u64::MAX.     *)
(* The function has two definitions, chosen by the features of the build.  *)
(***************************************************************************)
U64_MAX == MagSub(MagPow2(64), <<1>>)

\* u64::abs_diff
abs_diff(a, b) == IF MagCmp(a, b) >= 0 THEN MagSub(a, b) ELSE MagSub(b, a)

Cube(d) == [m |-> d, n |-> d, k |-> d, batch |-> 1]

\* main.rs:74, 188, 192
FixedSizes == Cube(1024)

\* the candidate lists have up to MaxCandidates entries
MaxCandidates == 3

\* main.rs:29-50   what candidate_sizes returns: a list that is not empty
CandidateLists ==
    UNION {[1 .. len -> {Cube(512), Cube(768)}] : len \in 1 .. MaxCandidates}

\* main.rs:22-27   what parse_target_ms returns: any u64 (300 by default)
TargetsMs == {MagOfNat(1), MagOfNat(300), U64_MAX}

\* attempt.rs:102   the elapsed_ms of an attempt
TuneElapsed == {MagOfNat(0), MagOfNat(250), MagOfNat(350), MagOfNat(400)}

TuneBuilds == {"gpu", "cpu-fallback"}

TuneInit ==
    \E cs \in CandidateLists, t \in TargetsMs, b \in TuneBuilds :
        tune = [pc |-> "call", build |-> b, candidates |-> cs, env_target |-> t,
                target_ms |-> <<>>, best_sizes |-> <<>>, best_score |-> <<>>,
                nonce |-> <<>>, next |-> 1, measured |-> <<>>,
                result |-> [tag |-> "none"]]

\* main.rs:54-57 (gpu), main.rs:74 (cpu-fallback)
TuneStart ==
    /\ tune.pc = "call"
    /\ IF tune.build = "gpu"
       THEN tune' = [tune EXCEPT !.pc = "for",
                                 !.target_ms = tune.env_target,
                                 !.best_sizes = <<>>,
                                 !.best_score = U64_MAX,
                                 !.nonce = MagOfNat(0)]
       ELSE tune' = [tune EXCEPT !.pc = "returned",
                                 !.result = [tag |-> "Ok", sizes |-> FixedSizes]]
    /\ UNCHANGED NotTune

\* main.rs:64   score < best_score
Better(score, best_score) == MagCmp(score, best_score) < 0

\* main.rs:58-66   one iteration of the loop over the candidates: the
\* attempt fails and `?` returns its error, or it is measured
TuneMeasure ==
    /\ tune.pc = "for"
    /\ tune.next <= Len(tune.candidates)
    /\ LET s == tune.candidates[tune.next]
       IN  \/ tune' = [tune EXCEPT
                        !.pc = "returned",
                        !.measured = Append(@, [sizes |-> s, nonce |-> tune.nonce,
                                                tag |-> "Err", dt |-> <<>>]),
                        !.result = [tag |-> "Err", error |-> "run_attempt"]]
           \/ \E dt \in TuneElapsed :
                LET score == abs_diff(dt, tune.target_ms)
                    better == Better(score, tune.best_score)
                IN  tune' = [tune EXCEPT
                        !.measured = Append(@, [sizes |-> s, nonce |-> tune.nonce,
                                                tag |-> "Ok", dt |-> dt]),
                        !.best_score = IF better THEN score ELSE @,
                        !.best_sizes = IF better THEN <<s>> ELSE @,
                        !.nonce = wrapping_add(@, 1),
                        !.next = @ + 1]
    /\ UNCHANGED NotTune

\* main.rs:68   best_sizes.ok_or_else(..)
TuneReturn ==
    /\ tune.pc = "for"
    /\ tune.next > Len(tune.candidates)
    /\ tune' = [tune EXCEPT
                  !.pc = "returned",
                  !.result = IF tune.best_sizes = <<>>
                             THEN [tag |-> "Err",
                                   error |-> "autotune produced no candidates"]
                             ELSE [tag |-> "Ok", sizes |-> tune.best_sizes[1]]]
    /\ UNCHANGED NotTune

TuneNext == TuneStart \/ TuneMeasure \/ TuneReturn

InitTune == TuneInit /\ RestIdle({"tune"})

SpecTune == InitTune /\ [][TuneNext]_vars

\* every candidate was measured and its attempt succeeded
AllMeasuredOk ==
    /\ Len(tune.measured) = Len(tune.candidates)
    /\ \A i \in 1 .. Len(tune.measured) : tune.measured[i].tag = "Ok"

\* |e_i - target| of the i-th measurement
Distance(i) == abs_diff(tune.measured[i].dt, tune.env_target)

\* the first index whose distance to the target is the least
NearestIndex ==
    CHOOSE i \in 1 .. Len(tune.measured) :
        /\ \A j \in 1 .. Len(tune.measured) :
              MagCmp(Distance(i), Distance(j)) <= 0
        /\ \A j \in 1 .. i - 1 : MagCmp(Distance(j), Distance(i)) > 0

\* C24: when the attempts of all candidates succeed, autotune_sizes
\* returns the candidate whose elapsed time is nearest to the target, the
\* first such candidate in the list, and candidate i (from 0) was measured
\* with nonce i.
C24_NearestCandidate ==
    (tune.pc = "returned" /\ tune.build = "gpu" /\ AllMeasuredOk) =>
        /\ tune.result = [tag |-> "Ok", sizes |-> tune.candidates[NearestIndex]]
        /\ \A i \in 1 .. Len(tune.measured) :
              /\ tune.measured[i].sizes = tune.candidates[i]
              /\ tune.measured[i].nonce = MagOfNat(i - 1)

\* C25: a failed attempt does not end the autotuner: every candidate is
\* tried, and when every attempt failed the result is Ok with the sizes
\* (1024, 1024, 1024).
C25_FallbackSizes ==
    (tune.pc = "returned" /\ tune.build = "gpu") =>
        /\ Len(tune.measured) = Len(tune.candidates)
        /\ (\A i \in 1 .. Len(tune.measured) : tune.measured[i].tag = "Err")
              => tune.result = [tag |-> "Ok", sizes |-> FixedSizes]

(***************************************************************************)
(* main from its entry to the loop (main.rs:77-206), with Config::from_env *)
(* and Config::validate (config.rs:81-187).  Strings that the code         *)
(* inspects are sequences of characters; `calls` is the list of the        *)
(* functions main has called so far.  The variables of the environment     *)
(* that are not listed in BootEnvs are unset.                              *)
(***************************************************************************)
\* Option<T>
None == <<>>
Some(x) == <<x>>

Rep(c, n) == [i \in 1 .. n |-> c]

\* the number of bytes of the UTF-8 encoding of a character; "U+00E9" is
\* the one character e with acute accent
Utf8Width(c) == IF c \in {"U+00E9"} THEN 2 ELSE 1

RECURSIVE Utf8Len(_)
\* str::len: the length of a string in bytes
Utf8Len(s) == IF s = <<>> THEN 0 ELSE Utf8Width(Head(s)) + Utf8Len(Tail(s))

\* str::chars().count(): the length of a string in characters
CharCount(s) == Len(s)

\* str::starts_with
starts_with(s, prefix) ==
    /\ Len(s) >= Len(prefix)
    /\ SubSeq(s, 1, Len(prefix)) = prefix

Digits == <<"0", "1", "2", "3", "4", "5", "6", "7", "8", "9">>

DigitValue(c) == CHOOSE d \in 0 .. 9 : Digits[d + 1] = c

RECURSIVE DecimalValue(_)
DecimalValue(s) ==
    IF s = <<>> THEN 0
    ELSE 10 * DecimalValue(SubSeq(s, 1, Len(s) - 1)) + DigitValue(s[Len(s)])

\* str::parse::<u64> for the strings of TargetStrings (all below 2^64): an
\* optional "+" and at least one decimal digit
parse_u64(s) ==
    LET body == IF s # <<>> /\ Head(s) = "+" THEN Tail(s) ELSE s
    IN  IF body # <<>> /\ \A i \in 1 .. Len(body) : \E d \in 1 .. 10 : Digits[d] = body[i]
        THEN [tag |-> "Ok", value |-> DecimalValue(body)]
        ELSE [tag |-> "Err", value |-> 0]

\* the decimal digits and the letters a-f, A-F that hex::decode accepts
HexChars == {"0", "1", "a", "F"}

\* signing.rs:12-15   Secp::from_hex: hex::decode wants hex digits in an even
\* number, SigningKey::from_bytes a scalar that is not zero (the keys of
\* KeyStrings are below the order of the group)
from_hex(sk_hex) ==
    IF \/ \E i \in 1 .. Len(sk_hex) : sk_hex[i] \notin HexChars
       \/ Len(sk_hex) % 2 # 0
    THEN [tag |-> "Err", error |-> "hex::decode"]
    ELSE IF \A i \in 1 .. Len(sk_hex) : sk_hex[i] = "0"
    THEN [tag |-> "Err", error |-> "SigningKey::from_bytes"]
    ELSE [tag |-> "Ok", error |-> ""]

\* config.rs:49-76   Config::default, the fields that main reads
ConfigDefault ==
    [worker_sk_hex |-> <<>>,
     aggregator_url |-> <<"h", "t", "t", "p", ":", "/", "/", "l">>,
     autotune_target_ms |-> 300,
     autotune_disable |-> FALSE,
     metrics_enabled |-> TRUE]

\* config.rs:81-167   Config::from_env
from_env(env) ==
    IF env.WORKER_SK_HEX = None
    THEN [tag |-> "Err", error |-> "MissingEnvVar", config |-> None]
    ELSE IF env.AUTOTUNE_TARGET_MS # None
            /\ parse_u64(env.AUTOTUNE_TARGET_MS[1]).tag = "Err"
    THEN [tag |-> "Err", error |-> "InvalidEnvVar", config |-> None]
    ELSE [tag |-> "Ok", error |-> "", config |-> Some(
            [ConfigDefault EXCEPT
                !.worker_sk_hex = env.WORKER_SK_HEX[1],
                !.aggregator_url =
                    IF env.AGGREGATOR_URL # None THEN env.AGGREGATOR_URL[1] ELSE @,
                !.autotune_target_ms =
                    IF env.AUTOTUNE_TARGET_MS # None
                    THEN parse_u64(env.AUTOTUNE_TARGET_MS[1]).value ELSE @,
                !.autotune_disable =
                    IF env.AUTOTUNE_DISABLE # None
                    THEN env.AUTOTUNE_DISABLE[1] = "1" ELSE @])]

http == <<"h", "t", "t", "p">>

\* A plausible slip: the key is measured in characters.
validate_chars(config) ==
    IF config.worker_sk_hex = <<>> THEN "Err"
    ELSE IF CharCount(config.worker_sk_hex) # 64 THEN "Err"
    ELSE IF ~starts_with(config.aggregator_url, http) THEN "Err"
    ELSE IF config.autotune_target_ms = 0 THEN "Err"
    ELSE "Ok"

\* config.rs:169-187   Config::validate
validate(config) ==
    IF config.worker_sk_hex = <<>> THEN "Err"
    ELSE IF Utf8Len(config.worker_sk_hex) # 64 THEN "Err"
    ELSE IF ~starts_with(config.aggregator_url, http) THEN "Err"
    ELSE IF config.autotune_target_ms = 0 THEN "Err"
    ELSE "Ok"

\* values of WORKER_SK_HEX
KeyStrings ==
    {<<>>, Rep("a", 64), Rep("0", 64), Rep("a", 63), Rep("a", 65),
     Rep("a", 62) \o <<"U+00E9">>, Rep("a", 63) \o <<"U+00E9">>, Rep("a", 63) \o <<"g">>}

\* values of AGGREGATOR_URL
UrlStrings ==
    {<<"h", "t", "t", "p", "s", ":">>, <<"h", "t", "t">>, <<"f", "t", "p", ":">>}

\* values of AUTOTUNE_TARGET_MS
TargetStrings == {<<"0">>, <<"2", "5", "0">>, <<"+", "1">>, <<"m", "s">>, <<>>}

Options(S) == {None} \cup {Some(x) : x \in S}

BootEnvs ==
    [WORKER_SK_HEX : Options(KeyStrings),
     AGGREGATOR_URL : Options(UrlStrings),
     AUTOTUNE_TARGET_MS : Options(TargetStrings),
     AUTOTUNE_DISABLE : Options({"1", "0"})]

\* the features of the build (main.rs:146, 165)
BootBuilds == {"none", "gpu", "cpu-fallback", "gpu,cpu-fallback"}

\* main runs this many iterations of its loop
MaxBootIters == 2

BootInit ==
    \E env \in BootEnvs, b \in BootBuilds :
        boot = [pc |-> "main", env |-> env, build |-> b, config |-> None,
                executor |-> None, sizes |-> None, calls |-> <<>>,
                attempts |-> <<>>, result |-> [tag |-> "none", error |-> ""]]

BootReturn(error, calls) ==
    [boot EXCEPT !.pc = "returned", !.calls = @ \o calls,
                 !.result = [tag |-> "Err", error |-> error]]

\* main.rs:80   let config = Config::from_env()?;
BootFromEnv ==
    /\ boot.pc = "main"
    /\ LET r == from_env(boot.env)
       IN  boot' = IF r.tag = "Err"
                   THEN BootReturn(r.error, <<"Config::from_env">>)
                   ELSE [boot EXCEPT !.pc = "validate", !.config = r.config,
                                     !.calls = @ \o <<"Config::from_env">>]
    /\ UNCHANGED NotBoot

\* main.rs:81   config.validate()?;
BootValidate ==
    /\ boot.pc = "validate"
    /\ boot' = IF validate(boot.config[1]) = "Err"
               THEN BootReturn("ValidationError", <<"Config::validate">>)
               ELSE [boot EXCEPT !.pc = "setup",
                                 !.calls = @ \o <<"Config::validate">>]
    /\ UNCHANGED NotBoot

\* main.rs:91-129   the collectors, the error handler, the rate limiter, the
\* health checker and, when metrics are enabled, the health server
BootSetup ==
    /\ boot.pc = "setup"
    /\ boot' = [boot EXCEPT
                  !.pc = "executor",
                  !.calls = @ \o <<"MetricsCollector::new", "PrometheusMetrics::new",
                                   "ErrorHandler::new", "RateLimiter::new",
                                   "HealthChecker::new">>
                              \o (IF boot.config[1].metrics_enabled
                                  THEN <<"HealthServer::start">> ELSE <<>>)]
    /\ UNCHANGED NotBoot

\* main.rs:146-184   the execution backend of the build
BootExecutor ==
    /\ boot.pc = "executor"
    /\ \/ /\ boot.build = "none"
          /\ boot' = BootReturn("No execution backend available", <<>>)
       \/ /\ boot.build \in {"gpu", "gpu,cpu-fallback"}
          /\ boot' = [boot EXCEPT !.pc = "sizes", !.executor = Some("GpuExec"),
                                  !.calls = @ \o <<"GpuExec::new">>]
       \/ /\ boot.build = "gpu"
          /\ boot' = BootReturn("GpuExec::new",
                                <<"GpuExec::new", "handle_gpu_error">>)
       \/ /\ boot.build = "gpu,cpu-fallback"
          /\ boot' = [boot EXCEPT !.pc = "sizes", !.executor = Some("CpuExec"),
                                  !.calls = @ \o <<"GpuExec::new", "handle_gpu_error",
                                                   "CpuExec::new">>]
       \/ /\ boot.build = "cpu-fallback"
          /\ boot' = [boot EXCEPT !.pc = "sizes", !.executor = Some("CpuExec"),
                                  !.calls = @ \o <<"CpuExec::new">>]
    /\ UNCHANGED NotBoot

\* main.rs:187-193   let sizes = if config.autotune_disable { .. } else { .. };
BootSizes ==
    /\ boot.pc = "sizes"
    /\ boot' = [boot EXCEPT
                  !.pc = "signer",
                  !.sizes = IF boot.config[1].autotune_disable
                            THEN Some(FixedSizes)
                            ELSE Some(FixedSizes)]
    /\ UNCHANGED NotBoot

\* main.rs:196-197   let secp = Secp::from_hex(&sk_hex)?;
BootSigner ==
    /\ boot.pc = "signer"
    /\ LET r == from_hex(boot.config[1].worker_sk_hex)
       IN  boot' = IF r.tag = "Err"
                   THEN BootReturn(r.error, <<"Secp::from_hex">>)
                   ELSE [boot EXCEPT !.pc = "loop",
                                     !.calls = @ \o <<"Secp::from_hex">>]
    /\ UNCHANGED NotBoot

\* main.rs:206-302   one iteration of the loop: the attempt runs with `sizes`
\* (main.rs:213) and the receipt carries `sizes` (main.rs:229)
BootIteration ==
    /\ boot.pc = "loop"
    /\ Len(boot.attempts) < MaxBootIters
    /\ boot' = [boot EXCEPT
                  !.calls = @ \o <<"run_attempt">>,
                  !.attempts = Append(@, [sizes |-> boot.sizes[1],
                                          receipt_sizes |-> boot.sizes[1]])]
    /\ UNCHANGED NotBoot

BootNext ==
    \/ BootFromEnv
    \/ BootValidate
    \/ BootSetup
    \/ BootExecutor
    \/ BootSizes
    \/ BootSigner
    \/ BootIteration

InitBoot == BootInit /\ RestIdle({"boot"})

SpecBoot == InitBoot /\ [][BootNext]_vars

\* how many times main has called f
CallCount(f) == Cardinality({i \in 1 .. Len(boot.calls) : boot.calls[i] = f})

\* C26: when autotuning is not disabled, main has called autotune_sizes
\* exactly once when it reaches its loop, and no further time during the
\* loop.
C26_AutotuneAtStartup ==
    (boot.pc = "loop" /\ ~boot.config[1].autotune_disable) =>
        CallCount("autotune_sizes") = 1

\* the environment's key, url and target as validate sees them
ValidatedConfig == boot.config[1]

ValidateActed == "Config::validate" \in {boot.calls[i] : i \in 1 .. Len(boot.calls)}

ValidateFailed == boot.pc = "returned" /\ boot.result.error = "ValidationError"

StartupFailed ==
    /\ boot.pc = "returned"
    /\ boot.result.error \in {"MissingEnvVar", "InvalidEnvVar", "ValidationError"}

NothingRan ==
    /\ boot.executor = None
    /\ boot.attempts = <<>>
    /\ \A f \in {"GpuExec::new", "CpuExec::new", "run_attempt"} : CallCount(f) = 0

Threads == {"t1", "t2", "t3"}

\* the calls a thread can make
MtrCalls ==
    [kind : {"record_attempt"}, time_ms : {3, 5}, success : BOOLEAN,
     error_type : {"Gpu"}]
    \cup [kind : {"record_error"}, time_ms : {0}, success : {FALSE},
          error_type : {"Gpu", "Network", "Signature", "Validation"}]

\* AtomicU64::fetch_add, the stored value
fetch_add(cell, n) == cell + n

\* time_ms < current_min, where current_min may be u64::MAX
BelowMin(time_ms, current_min) ==
    current_min.is_u64_max \/ time_ms < current_min.ms

\* A plausible slip: the new value is stored whatever the cell holds.
compare_exchange_store(cell, current, new) ==
    {[tag |-> "Ok", cell |-> new, seen |-> cell]}

\* AtomicU64::compare_exchange_weak: the outcomes of one call.  It stores
\* `new` only if the cell holds `current`, and it may fail although it does.
compare_exchange_weak(cell, current, new) ==
    {[tag |-> "Err", cell |-> cell, seen |-> cell]}
    \cup (IF cell = current
          THEN {[tag |-> "Ok", cell |-> new, seen |-> cell]} ELSE {})

MtrInit ==
    \E calls \in [Threads -> MtrCalls] :
        mtr = [pc |-> "running", m |-> MetricsCollectorNew,
               threads |-> [t \in Threads |->
                              [pc |-> calls[t].kind, call |-> calls[t],
                               current_min |-> U64Max, current_max |-> 0]]]

MtrGo(t, pc, m) == mtr' = [mtr EXCEPT !.m = m, !.threads[t].pc = pc]

\* metrics.rs:76
MtrTotalAttempts ==
    /\ \E t \in Threads :
        /\ mtr.threads[t].pc = "record_attempt"
        /\ MtrGo(t, IF mtr.threads[t].call.success THEN "successful" ELSE "failed",
                 [mtr.m EXCEPT !.total_attempts = fetch_add(@, 1)])
    /\ UNCHANGED NotMtr

\* metrics.rs:79
MtrSuccessful ==
    /\ \E t \in Threads :
        /\ mtr.threads[t].pc = "successful"
        /\ MtrGo(t, "store_consecutive",
                 [mtr.m EXCEPT !.successful_attempts = fetch_add(@, 1)])
    /\ UNCHANGED NotMtr

\* metrics.rs:80
MtrStoreConsecutive ==
    /\ \E t \in Threads :
        /\ mtr.threads[t].pc = "store_consecutive"
        /\ MtrGo(t, "last_success", [mtr.m EXCEPT !.consecutive_failures = 0])
    /\ UNCHANGED NotMtr

\* metrics.rs:83-85   the mutex is held for the one assignment
MtrLastSuccess ==
    /\ \E t \in Threads :
        /\ mtr.threads[t].pc = "last_success"
        /\ MtrGo(t, "total_time", [mtr.m EXCEPT !.last_success_time = "Some"])
    /\ UNCHANGED NotMtr

\* metrics.rs:87
MtrFailed ==
    /\ \E t \in Threads :
        /\ mtr.threads[t].pc = "failed"
        /\ MtrGo(t, "add_consecutive",
                 [mtr.m EXCEPT !.failed_attempts = fetch_add(@, 1)])
    /\ UNCHANGED NotMtr

\* metrics.rs:88
MtrAddConsecutive ==
    /\ \E t \in Threads :
        /\ mtr.threads[t].pc = "add_consecutive"
        /\ MtrGo(t, "total_time",
                 [mtr.m EXCEPT !.consecutive_failures = fetch_add(@, 1)])
    /\ UNCHANGED NotMtr

\* metrics.rs:92
MtrTotalTime ==
    /\ \E t \in Threads :
        /\ mtr.threads[t].pc = "total_time"
        /\ MtrGo(t, "attempt_count",
                 [mtr.m EXCEPT
                    !.total_time_ms = fetch_add(@, mtr.threads[t].call.time_ms)])
    /\ UNCHANGED NotMtr

\* metrics.rs:93
MtrAttemptCount ==
    /\ \E t \in Threads :
        /\ mtr.threads[t].pc = "attempt_count"
        /\ MtrGo(t, "load_min", [mtr.m EXCEPT !.attempt_count = fetch_add(@, 1)])
    /\ UNCHANGED NotMtr

\* metrics.rs:96   let mut current_min = self.min_time_ms.load(..);
MtrLoadMin ==
    /\ \E t \in Threads :
        /\ mtr.threads[t].pc = "load_min"
        /\ mtr' = [mtr EXCEPT !.threads[t].pc = "while_min",
                              !.threads[t].current_min = mtr.m.min_time_ms]
    /\ UNCHANGED NotMtr

\* metrics.rs:97-104   one evaluation of the while condition and, if it
\* holds, one compare_exchange_weak
MtrWhileMin ==
    /\ \E t \in Threads :
        LET th == mtr.threads[t]
        IN  /\ th.pc = "while_min"
            /\ IF BelowMin(th.call.time_ms, th.current_min)
               THEN \E r \in compare_exchange_weak(mtr.m.min_time_ms, th.current_min,
                                                   U64Ms(th.call.time_ms)) :
                       mtr' = [mtr EXCEPT
                                 !.m.min_time_ms = r.cell,
                                 !.threads[t].current_min =
                                     IF r.tag = "Err" THEN r.seen ELSE @,
                                 !.threads[t].pc =
                                     IF r.tag = "Ok" THEN "load_max" ELSE @]
               ELSE mtr' = [mtr EXCEPT !.threads[t].pc = "load_max"]
    /\ UNCHANGED NotMtr

\* metrics.rs:106   let mut current_max = self.max_time_ms.load(..);
MtrLoadMax ==
    /\ \E t \in Threads :
        /\ mtr.threads[t].pc = "load_max"
        /\ mtr' = [mtr EXCEPT !.threads[t].pc = "while_max",
                              !.threads[t].current_max = mtr.m.max_time_ms]
    /\ UNCHANGED NotMtr

\* metrics.rs:107-114
MtrWhileMax ==
    /\ \E t \in Threads :
        LET th == mtr.threads[t]
        IN  /\ th.pc = "while_max"
            /\ IF th.call.time_ms > th.current_max
               THEN \E r \in compare_exchange_weak(mtr.m.max_time_ms, th.current_max,
                                                   th.call.time_ms) :
                       mtr' = [mtr EXCEPT
                                 !.m.max_time_ms = r.cell,
                                 !.threads[t].current_max =
                                     IF r.tag = "Err" THEN r.seen ELSE @,
                                 !.threads[t].pc =
                                     IF r.tag = "Ok" THEN "returned" ELSE @]
               ELSE mtr' = [mtr EXCEPT !.threads[t].pc = "returned"]
    /\ UNCHANGED NotMtr

\* metrics.rs:117-124   record_error is one fetch_add
MtrRecordError ==
    /\ \E t \in Threads :
        /\ mtr.threads[t].pc = "record_error"
        /\ MtrGo(t, "returned", record_error(mtr.m, mtr.threads[t].call.error_type))
    /\ UNCHANGED NotMtr

MtrNext ==
    \/ MtrTotalAttempts
    \/ MtrSuccessful
    \/ MtrStoreConsecutive
    \/ MtrLastSuccess
    \/ MtrFailed
    \/ MtrAddConsecutive
    \/ MtrTotalTime
    \/ MtrAttemptCount
    \/ MtrLoadMin
    \/ MtrWhileMin
    \/ MtrLoadMax
    \/ MtrWhileMax
    \/ MtrRecordError

InitMetrics == MtrInit /\ RestIdle({"mtr"})

SpecMetrics == InitMetrics /\ [][MtrNext]_vars

AllReturned == \A t \in Threads : mtr.threads[t].pc = "returned"

AttemptThreads == {t \in Threads : mtr.threads[t].call.kind = "record_attempt"}

RecordedTimes == {mtr.threads[t].call.time_ms : t \in AttemptThreads}

\* C28: once all the concurrent calls have returned, total_attempts is the
\* number N of record_attempt calls, successful_attempts and failed_attempts
\* the numbers of those with and without success, the four error counters
\* sum to the number of record_error calls, and min_time_ms and max_time_ms
\* are the least and the greatest of the recorded times.
C28_NoLostUpdate ==
    AllReturned =>
        /\ mtr.m.total_attempts = Cardinality(AttemptThreads)
        /\ mtr.m.successful_attempts =
              Cardinality({t \in AttemptThreads : mtr.threads[t].call.success})
        /\ mtr.m.failed_attempts =
              Cardinality({t \in AttemptThreads : ~mtr.threads[t].call.success})
        /\ mtr.m.gpu_errors + mtr.m.network_errors + mtr.m.signature_errors
              + mtr.m.validation_errors
              = Cardinality(Threads \ AttemptThreads)
        /\ AttemptThreads # {} =>
              /\ ~mtr.m.min_time_ms.is_u64_max
              /\ \A x \in RecordedTimes : mtr.m.min_time_ms.ms <= x
              /\ mtr.m.min_time_ms.ms \in RecordedTimes
              /\ \A x \in RecordedTimes : mtr.m.max_time_ms >= x
              /\ mtr.m.max_time_ms \in RecordedTimes

\* C28 witness: three calls have returned: a record_error, a failed
\* record_attempt of 3 ms that replaced the initial u64::MAX of min_time_ms,
\* and a successful record_attempt of 5 ms that saw that 3 in min_time_ms.
C28_Witness ==
    /\ AllReturned
    /\ Cardinality(AttemptThreads) = 2
    /\ \E a, b \in AttemptThreads :
          /\ mtr.threads[a].call = [kind |-> "record_attempt", time_ms |-> 5,
                                    success |-> TRUE, error_type |-> "Gpu"]
          /\ mtr.threads[b].call = [kind |-> "record_attempt", time_ms |-> 3,
                                    success |-> FALSE, error_type |-> "Gpu"]
          /\ mtr.threads[a].current_min = U64Ms(3)
          /\ mtr.threads[b].current_min = U64Max
    /\ mtr.m.min_time_ms = U64Ms(3)
    /\ mtr.m.max_time_ms = 5
    /\ mtr.m.total_attempts = 2

(***************************************************************************)
(* The health server (server.rs:24-139) with the HealthChecker             *)
(* (health.rs:36-96) and the readers of the collector                      *)
(* (metrics.rs:126-201), next to the worker loop that records into the     *)
(* same collector.  A method that takes &self on the collector of atomics  *)
(* is an operator that returns its value and the collector it leaves.      *)
(* A request is a sequence of words and whitespace characters; the f64     *)
(* averages and rates of Metrics, computed from the values loaded, are     *)
(* left out.                                                               *)
(***************************************************************************)
Whitespace == {"SP", "CR", "LF"}

\* str::lines().collect::<Vec<_>>().is_empty()
LinesIsEmpty(request) == request = <<>>

RECURSIVE FirstLine(_)
\* str::lines(): lines[0] of a text that is not empty
FirstLine(request) ==
    IF request = <<>> \/ Head(request) = "LF" THEN <<>>
    ELSE <<Head(request)>> \o FirstLine(Tail(request))

IsWord(piece) == piece \notin Whitespace

\* str::split_whitespace
split_whitespace(line) == SelectSeq(line, IsWord)

\* A plausible slip: looking at the health status ends the failure streak.
get_health_status_resetting(mx) ==
    [value |-> "Healthy",
     collector |-> [mx EXCEPT !.consecutive_failures = 0]]

\* A plausible slip: a streak of exactly five failures is not yet unhealthy.
get_health_status_strict(mx) ==
    LET consecutive_failures == mx.consecutive_failures
        total_attempts == mx.total_attempts
        failed_attempts == mx.failed_attempts
        rate_above_half == total_attempts > 0 /\ 2 * failed_attempts > total_attempts
        rate_above_fifth == total_attempts > 0 /\ 5 * failed_attempts > total_attempts
    IN  [value |-> IF consecutive_failures >= 10 THEN "Critical"
                   ELSE IF consecutive_failures > 5 \/ rate_above_half
                   THEN "Unhealthy"
                   ELSE IF consecutive_failures >= 2 \/ rate_above_fifth
                   THEN "Degraded"
                   ELSE "Healthy",
         collector |-> mx]

\* metrics.rs:181-201   MetricsCollector::get_health_status
get_health_status(mx) ==
    LET consecutive_failures == mx.consecutive_failures
        total_attempts == mx.total_attempts
        failed_attempts == mx.failed_attempts
        \* failure_rate > 0.5 and failure_rate > 0.2, for these small counts
        rate_above_half == total_attempts > 0 /\ 2 * failed_attempts > total_attempts
        rate_above_fifth == total_attempts > 0 /\ 5 * failed_attempts > total_attempts
    IN  [value |-> IF consecutive_failures >= 10 THEN "Critical"
                   ELSE IF consecutive_failures >= 5 \/ rate_above_half
                   THEN "Unhealthy"
                   ELSE IF consecutive_failures >= 2 \/ rate_above_fifth
                   THEN "Degraded"
                   ELSE "Healthy",
         collector |-> mx]

\* metrics.rs:126-179   MetricsCollector::get_metrics
get_metrics(mx, uptime_seconds) ==
    [value |-> [total_attempts |-> mx.total_attempts,
                successful_attempts |-> mx.successful_attempts,
                failed_attempts |-> mx.failed_attempts,
                min_time_ms |-> IF mx.min_time_ms = U64Max THEN 0
                                ELSE mx.min_time_ms.ms,
                max_time_ms |-> mx.max_time_ms,
                gpu_errors |-> mx.gpu_errors,
                network_errors |-> mx.network_errors,
                signature_errors |-> mx.signature_errors,
                validation_errors |-> mx.validation_errors,
                uptime_seconds |-> uptime_seconds,
                consecutive_failures |-> mx.consecutive_failures],
     collector |-> mx]

\* health.rs:36-46   HealthChecker::get_health
get_health(mx, uptime_seconds) ==
    LET health_status == get_health_status(mx)
    IN  [value |-> [status |-> health_status.value,
                    uptime_seconds |-> uptime_seconds],
         collector |-> health_status.collector]

\* health.rs:48-57   HealthChecker::get_metrics
HealthCheckerGetMetrics(mx, uptime_seconds) ==
    LET metrics == get_metrics(mx, uptime_seconds)
        health_status == get_health_status(metrics.collector)
    IN  [value |-> [metrics |-> metrics.value,
                    health_status |-> health_status.value],
         collector |-> health_status.collector]

\* health.rs:63-95   HealthChecker::get_detailed_status
get_detailed_status(mx, uptime_seconds) ==
    LET metrics == get_metrics(mx, uptime_seconds)
        health_status == get_health_status(metrics.collector)
    IN  [value |-> [health |-> health_status.value,
                    metrics |-> metrics.value],
         collector |-> health_status.collector]

\* prometheus_metrics.rs:32-60   the gauges that update_from_metrics sets
PrometheusGaugesNew ==
    [uptime_seconds |-> 0, consecutive_failures |-> 0, success_rate |-> 0]

\* prometheus_metrics.rs:136-150   PrometheusMetrics::update_from_metrics
update_from_metrics(pm, metrics) ==
    [pm EXCEPT
        !.uptime_seconds = metrics.uptime_seconds,
        !.consecutive_failures = metrics.consecutive_failures,
        !.success_rate =
            IF metrics.total_attempts > 0
            THEN (metrics.successful_attempts * 10000) \div metrics.total_attempts
            ELSE 0]

Response(status, body, mx, pm) ==
    [status |-> status, body |-> <<body>>, collector |-> mx, prometheus |-> pm]

\* server.rs:51-139   HealthServer::handle_request: the response and what
\* the call leaves in the collector and in the Prometheus gauges
handle_request(request, mx, pm, uptime_seconds) ==
    IF LinesIsEmpty(request) THEN Response(400, "Bad Request", mx, pm)
    ELSE
    LET parts == split_whitespace(FirstLine(request))
    IN  IF Len(parts) < 2 THEN Response(400, "Bad Request", mx, pm)
        ELSE
        LET method == parts[1]
            path == parts[2]
        IN  IF method = "GET" /\ path = "/health"
            THEN LET health == get_health(mx, uptime_seconds)
                 IN  Response(200, health.value, health.collector, pm)
            ELSE IF method = "GET" /\ path = "/metrics"
            THEN LET metrics == HealthCheckerGetMetrics(mx, uptime_seconds)
                 IN  Response(200, metrics.value, metrics.collector, pm)
            ELSE IF method = "GET" /\ path = "/prometheus"
            THEN LET current_metrics == HealthCheckerGetMetrics(mx, uptime_seconds)
                     updated == update_from_metrics(pm, current_metrics.value.metrics)
                 IN  Response(200, updated, current_metrics.collector, updated)
            ELSE IF method = "GET" /\ path = "/status"
            THEN LET status == get_detailed_status(mx, uptime_seconds)
                 IN  Response(200, status.value, status.collector, pm)
            ELSE IF method = "GET" /\ path = "/"
            THEN Response(200, "html", mx, pm)
            ELSE Response(404, "Not Found", mx, pm)

\* what a client sends
Requests ==
    {<<"GET", "SP", "/health", "SP", "HTTP/1.1", "CR", "LF", "CR", "LF">>,
     <<"GET", "SP", "/metrics", "SP", "HTTP/1.1", "CR", "LF">>,
     <<"GET", "SP", "/prometheus", "SP", "HTTP/1.1", "CR", "LF">>,
     <<"GET", "SP", "/status", "LF", "Host:", "SP", "x", "LF">>,
     <<"SP", "GET", "SP", "SP", "/", "CR", "LF">>,
     <<"GET", "SP", "/nope", "SP", "HTTP/1.1", "CR", "LF">>,
     <<"POST", "SP", "/health", "SP", "HTTP/1.1", "CR", "LF">>,
     <<"GET", "CR", "LF", "/health", "LF">>,
     <<"LF">>,
     <<>>}

UptimeSeconds == {0, 7}

\* the worker records at most this many attempts and errors
MaxRecords == 3

\* the requests the server answers
MaxRequests == 2

SrvInit ==
    srv = [pc |-> "accept", m |-> MetricsCollectorNew,
           pm |-> PrometheusGaugesNew, request |-> <<>>,
           response |-> <<>>, records |-> 0, requests |-> 0]

\* server.rs:29   listener.accept()
SrvAccept ==
    /\ srv.pc \in {"accept", "responded", "closed"}
    /\ srv.requests < MaxRequests
    /\ \E request \in Requests :
          srv' = [srv EXCEPT !.pc = "read", !.request = request,
                             !.response = <<>>, !.requests = @ + 1]
    /\ UNCHANGED NotSrv

\* server.rs:34-41   socket.read: no byte or an error ends the task
SrvRead ==
    /\ srv.pc = "read"
    /\ \/ /\ srv.request # <<>>
          /\ srv' = [srv EXCEPT !.pc = "handle"]
       \/ srv' = [srv EXCEPT !.pc = "closed"]
    /\ UNCHANGED NotSrv

\* server.rs:42-46   handle_request and the write of its response
SrvHandle ==
    /\ srv.pc = "handle"
    /\ \E uptime_seconds \in UptimeSeconds :
          LET r == handle_request(srv.request, srv.m, srv.pm, uptime_seconds)
          IN  srv' = [srv EXCEPT !.pc = "responded",
                                 !.response = <<[status |-> r.status,
                                                 body |-> r.body]>>,
                                 !.m = r.collector,
                                 !.pm = r.prometheus]
    /\ UNCHANGED NotSrv

\* main.rs:259-279, 216, 246   the worker loop records an attempt or an error
SrvWorkerRecords ==
    /\ srv.records < MaxRecords
    /\ \E mx \in {record_attempt(srv.m, 5, TRUE),
                  handle_network_error(record_attempt(srv.m, 7, FALSE)),
                  handle_gpu_error(srv.m),
                  handle_signature_error(srv.m)} :
          srv' = [srv EXCEPT !.m = mx, !.records = @ + 1]
    /\ UNCHANGED NotSrv

SrvNext == SrvAccept \/ SrvRead \/ SrvHandle \/ SrvWorkerRecords

InitServer == SrvInit /\ RestIdle({"srv"})

SpecServer == InitServer /\ [][SrvNext]_vars

\* C29: no step of the health server (accepting, reading, handling any
\* request and answering it) changes the MetricsCollector: only the steps
\* of the worker loop do.
C29_EndpointReadOnly ==
    [][(SrvAccept \/ SrvRead \/ SrvHandle) => srv'.m = srv.m]_vars

\* C29 witness: GET /prometheus has been answered with 200 from a collector
\* that holds two failed attempts, two network errors and a failure streak
\* of two, and the gauges were updated from it.
C29_Witness ==
    /\ srv.pc = "responded"
    /\ split_whitespace(FirstLine(srv.request)) = <<"GET", "/prometheus", "HTTP/1.1">>
    /\ srv.response[1].status = 200
    /\ srv.m.failed_attempts = 2
    /\ srv.m.network_errors = 2
    /\ srv.m.consecutive_failures = 2
    /\ srv.m.max_time_ms = 7
    /\ srv.pm.consecutive_failures = 2
    /\ srv.pm.uptime_seconds = 7

(***************************************************************************)
(* The health status as the collector's history determines it              *)
(* (metrics.rs:75-89, 181-201): one thread records attempts, and the       *)
(* status is read between them.                                            *)
(***************************************************************************)
\* the attempts recorded before the status is last read
MaxHealthAttempts == 12

HealthInit ==
    mtr = [pc |-> "recorded", m |-> MetricsCollectorNew, status |-> "",
           before |-> MetricsCollectorNew, success |-> FALSE]

\* metrics.rs:75-115   a call of record_attempt
HealthRecordAttempt ==
    /\ mtr.m.total_attempts < MaxHealthAttempts
    /\ \E success \in BOOLEAN :
          mtr' = [mtr EXCEPT !.pc = "recorded",
                             !.before = mtr.m,
                             !.success = success,
                             !.m = record_attempt(mtr.m, 5, success),
                             !.status = ""]
    /\ UNCHANGED NotMtr

\* metrics.rs:181-201   a call of get_health_status
HealthGetStatus ==
    /\ mtr.pc = "recorded"
    /\ LET r == get_health_status(mtr.m)
       IN  mtr' = [mtr EXCEPT !.pc = "read", !.status = r.value,
                              !.m = r.collector]
    /\ UNCHANGED NotMtr

HealthNext == HealthRecordAttempt \/ HealthGetStatus

InitHealth == HealthInit /\ RestIdle({"mtr"})

SpecHealth == InitHealth /\ [][HealthNext]_vars

\* failed/total > p/q as a comparison of rationals (FALSE with no attempt)
FailureRateAbove(p, q) ==
    /\ mtr.m.total_attempts > 0
    /\ mtr.m.failed_attempts * q > p * mtr.m.total_attempts

\* C31: the status read is critical if consecutive_failures >= 10; else
\* unhealthy if consecutive_failures >= 5 or failed/total > 1/2; else
\* degraded if consecutive_failures >= 2 or failed/total > 1/5; else
\* healthy (so healthy with zero attempts); a successful record_attempt
\* leaves consecutive_failures at 0 and a failed one adds 1 to it.
C31_HealthThresholds ==
    /\ mtr.pc = "read" =>
          LET c == mtr.m.consecutive_failures
          IN  /\ mtr.status = "Critical" <=> c >= 10
              /\ mtr.status = "Unhealthy" <=>
                    (c < 10 /\ (c >= 5 \/ FailureRateAbove(1, 2)))
              /\ mtr.status = "Degraded" <=>
                    (c < 5 /\ ~FailureRateAbove(1, 2)
                       /\ (c >= 2 \/ FailureRateAbove(1, 5)))
              /\ mtr.status = "Healthy" <=>
                    (c < 2 /\ ~FailureRateAbove(1, 5))
              /\ mtr.m.total_attempts = 0 => mtr.status = "Healthy"
    /\ (mtr.pc = "recorded" /\ mtr.m.total_attempts > 0) =>
          mtr.m.consecutive_failures =
              IF mtr.success THEN 0 ELSE mtr.before.consecutive_failures + 1

\* C31 witness: after six successes and then five failures the status read
\* is unhealthy by the streak of five alone, the failure rate 5/11 being
\* below 1/2.
C31_Witness ==
    /\ mtr.pc = "read"
    /\ mtr.status = "Unhealthy"
    /\ mtr.m.consecutive_failures = 5
    /\ mtr.m.failed_attempts = 5
    /\ mtr.m.total_attempts = 11

(***************************************************************************)
(* The probe of an Open breaker (error_handling.rs:47-86).                 *)
(***************************************************************************)
\* the breaker is Open and recovery_timeout has elapsed since it opened
OpenAndRecovered(b) ==
    b.state.tag = "Open" /\ b.state.elapsed >= b.recovery_timeout

\* C36: a record_failure on a breaker that is Open with recovery_timeout
\* elapsed leaves a breaker that refuses: can_execute is false right after
\* it, the time to the next admission starting anew.
C36_FailedProbeRefuses ==
    [][(BreakerRecordFailure /\ OpenAndRecovered(cb.breaker))
        => /\ ~can_execute(cb'.breaker)
           /\ cb'.breaker.state = Open(0)]_vars

(***************************************************************************)
(* The health status across the iterations of the worker loop that end in  *)
(* a compute or a signing failure (main.rs:213-249).                       *)
(***************************************************************************)
\* C35: an iteration that ends in a failure of run_attempt or of
\* sign_receipt leaves total_attempts, failed_attempts and
\* consecutive_failures as they were (of the metrics only the gpu or the
\* signature error counter changes), and with them what get_health_status
\* returns.
C35_FailuresLeaveHealth ==
    [][(loop.pc \in {"attempt", "sign"} /\ loop'.pc = "top")
        => /\ loop'.metrics.total_attempts = loop.metrics.total_attempts
           /\ loop'.metrics.failed_attempts = loop.metrics.failed_attempts
           /\ loop'.metrics.consecutive_failures
                = loop.metrics.consecutive_failures
           /\ loop'.metrics \in
                {[loop.metrics EXCEPT !.gpu_errors = @ + 1],
                 [loop.metrics EXCEPT !.signature_errors = @ + 1]}
           /\ get_health_status(loop'.metrics).value
                = get_health_status(loop.metrics).value]_vars

\* C35 witness: a failed submission made the status unhealthy (one failure
\* in one attempt); a compute failure and a signing failure followed and the
\* counters of attempts and the status are as they were.
C35_Witness ==
    /\ loop.pc = "top"
    /\ Len(loop.trail) = 3
    /\ loop.trail[1].result = "submission failed"
    /\ loop.trail[2].result = "compute error"
    /\ loop.trail[3].result = "signing error"
    /\ loop.metrics.total_attempts = 1
    /\ loop.metrics.failed_attempts = 1
    /\ loop.metrics.consecutive_failures = 1
    /\ get_health_status(loop.metrics).value = "Unhealthy"

(***************************************************************************)
(* get_metrics next to the recording threads (metrics.rs:126-179): the     *)
(* reader loads the counters one after the other, each load one step,      *)
(* while the threads of SpecMetrics take their steps.                      *)
(***************************************************************************)
\* the calls of the recording threads while a snapshot is taken: an
\* attempt of 5 ms that succeeded or failed, a failed attempt of 3 ms and a
\* gpu error
SnapshotCalls ==
    {calls \in [Threads -> MtrCalls] :
        /\ calls["t1"].kind = "record_attempt" /\ calls["t1"].time_ms = 5
        /\ calls["t2"] = [kind |-> "record_attempt", time_ms |-> 3,
                          success |-> FALSE, error_type |-> "Gpu"]
        /\ calls["t3"] = [kind |-> "record_error", time_ms |-> 0,
                          success |-> FALSE, error_type |-> "Gpu"]}

SnapInit ==
    \E calls \in SnapshotCalls :
        mtr = [pc |-> "running", m |-> MetricsCollectorNew,
               threads |-> [t \in Threads |->
                              [pc |-> calls[t].kind, call |-> calls[t],
                               current_min |-> U64Max, current_max |-> 0]],
               reader |-> [pc |-> "total_attempts", total_attempts |-> 0,
                           successful_attempts |-> 0, failed_attempts |-> 0,
                           snapshot |-> <<>>]]

\* metrics.rs:127
SnapLoadTotal ==
    /\ mtr.reader.pc = "total_attempts"
    /\ mtr' = [mtr EXCEPT !.reader.pc = "successful_attempts",
                          !.reader.total_attempts = mtr.m.total_attempts]
    /\ UNCHANGED NotMtr

\* metrics.rs:128
SnapLoadSuccessful ==
    /\ mtr.reader.pc = "successful_attempts"
    /\ mtr' = [mtr EXCEPT !.reader.pc = "failed_attempts",
                          !.reader.successful_attempts = mtr.m.successful_attempts]
    /\ UNCHANGED NotMtr

\* metrics.rs:129
SnapLoadFailed ==
    /\ mtr.reader.pc = "failed_attempts"
    /\ mtr' = [mtr EXCEPT !.reader.pc = "rest",
                          !.reader.failed_attempts = mtr.m.failed_attempts]
    /\ UNCHANGED NotMtr

\* metrics.rs:130-178   the other loads, and the Metrics that is returned
SnapReturn ==
    /\ mtr.reader.pc = "rest"
    /\ mtr' = [mtr EXCEPT
                 !.reader.pc = "returned",
                 !.reader.snapshot =
                     <<[get_metrics(mtr.m, 0).value EXCEPT
                          !.total_attempts = mtr.reader.total_attempts,
                          !.successful_attempts = mtr.reader.successful_attempts,
                          !.failed_attempts = mtr.reader.failed_attempts]>>]
    /\ UNCHANGED NotMtr

SnapNext ==
    \/ MtrNext
    \/ SnapLoadTotal
    \/ SnapLoadSuccessful
    \/ SnapLoadFailed
    \/ SnapReturn

InitSnapshot == SnapInit /\ RestIdle({"mtr"})

SpecSnapshot == InitSnapshot /\ [][SnapNext]_vars

\* C37: in every Metrics that get_metrics has returned, total_attempts is
\* successful_attempts + failed_attempts.
C37_SnapshotConsistent ==
    (mtr.pc = "running" /\ mtr.reader.pc = "returned") =>
        mtr.reader.snapshot[1].total_attempts
            = mtr.reader.snapshot[1].successful_attempts
                + mtr.reader.snapshot[1].failed_attempts

=============================================================================
